---- MODULE Spec2Model ----
(***************************************************************************)
(* Model of the lab2 file-conversion subsystem of tmps-labs: the global    *)
(* converter registry (converter_factory.go), the per-key ConverterPool    *)
(* (converter_pool.go) and the PipelineExecutor (pipeline_builder.go).     *)
(* Goroutines are the elements of Threads; a goroutine's position in the   *)
(* code is pc[t].  One step is one lock operation, one channel operation   *)
(* or one lock-free stretch of code.                                       *)
(***************************************************************************)
EXTENDS Integers, Sequences, FiniteSets, TLC

\* ------------------------------------------------------------------ bounds
NumThreads == 2
MaxPoolSize == 2
MaxCalls == 3
MaxSteps == 2
MaxRuns == 1
MaxFairCalls == 2
MaxBuildSteps == 2
MaxRegCalls == 3
MaxLines == 3
MaxCells == 2
MaxSharedRuns == 2

Threads == 1..NumThreads

\* ------------------------------------------------------------- value types
\* The converter structs of the package, named by the key their init()
\* registers them under.
CSVToJSONConverter == "CSVToJSON"
JSONToXMLConverter == "JSONToXML"
XMLToYAMLConverter == "XMLToYAML"
JSONToCSVConverter == "JSONToCSV"

NoCreator == "nil"

\* Keys that are requested from the pool and the factory.  "yaml-csv" is a
\* key no init() registers.
PoolKeys == {"csv-json", "yaml-csv"}
AllKeys == {"csv-json", "json-xml", "xml-yaml", "json-csv", "yaml-csv"}

\* A converter instance.  Go's instances are pointers to empty structs; the
\* model records, per instance, the struct type, the key CreateConverter was
\* asked for when it built the instance, and the path of Get that built it:
\* "counted" (line 46), "temp" (line 61), "direct" (CreateConverter called by a
\* client), "foreign" (built outside the factory).
NoConv == [ctor |-> "nil", key |-> "nil", origin |-> "nil"]
NewInstance(c, k, o) == [ctor |-> c, key |-> k, origin |-> o]
ForeignInstances == {NewInstance(CSVToJSONConverter, "csv-json", "foreign")}

NoErr == "nil"
ErrUnsupportedType == "unsupported converter type"

\* models.FileFormat
FormatCSV == "csv"
FormatJSON == "json"
FormatXML == "xml"
FormatYAML == "yaml"

\* Payload bytes, abstracted: the format the bytes are written in, whether
\* they parse in that format, and the converters that produced them from the
\* input file, oldest first.
NoData == [format |-> "nil", wellformed |-> FALSE, trail |-> <<>>]
FileData(f, ok) == [format |-> f, wellformed |-> ok, trail |-> <<>>]

\* models.ConversionResult
ConversionResult(d, f, e) == [Data |-> d, Format |-> f, Error |-> e]
NoResult == ConversionResult(NoData, "nil", NoErr)
ErrUnsupportedConversion == "unsupported conversion"
ErrParse == "failed to parse"
ErrGetConverter == "failed to get converter from pool"

\* The error a fmt.Errorf wraps with %w: its text, the registry key it
\* prints (the factory's "unsupported converter type: %s") and the path it
\* prints (the *fs.PathError of os.ReadFile, os.MkdirAll and os.WriteFile).
Cause(text, k, path) == [text |-> text, key |-> k, path |-> path]
NoCause == Cause(NoErr, "nil", <<>>)

\* The error of a PipelineResult: the message of the fmt.Errorf that built
\* it, the step number and formats it prints, and the wrapped cause.
PipelineError(m, n, f, to, c) ==
    [msg |-> m, step |-> n, from |-> f, to |-> to, cause |-> c]
NoPipelineError == PipelineError("nil", 0, "nil", "nil", NoCause)

\* models.PipelineResult (Success, Results, Error, Duration); a result is
\* made with Duration at its zero value.
PipelineResult(ok, rs, e) ==
    [Success |-> ok, Results |-> rs, Error |-> e, Duration |-> 0]
NoPipelineResult == PipelineResult(FALSE, <<>>, NoPipelineError)

\* models.ConversionOptions (Indent, PrettyPrint, Headers,
\* SaveIntermediarySteps), all at their zero values.
NoOptions == [Indent |-> FALSE, PrettyPrint |-> FALSE, Headers |-> <<>>,
              Save |-> FALSE]

\* models.Pipeline (Steps, Options, InputPath, OutputPath), the four options
\* written as fields of the pipeline: Save is Options.SaveIntermediarySteps.
NewPipeline(ss, o, ip, op) ==
    [Steps |-> ss, Indent |-> o.Indent, PrettyPrint |-> o.PrettyPrint,
     Headers |-> o.Headers, Save |-> o.Save, InputPath |-> ip,
     OutputPath |-> op]
NoPipeline == NewPipeline(<<>>, NoOptions, <<>>, <<>>)

\* What Build() returns: the pointer (nil, or the builder's own pipeline
\* object, line 101) and the error.
NoBuild == [pipeline |-> "nil", err |-> NoErr]

\* The pointer a successful Build() returned and the value of the pipeline
\* it pointed to at that moment.
NoSnapshot == [ref |-> "nil", value |-> NoPipeline]

\* An io.Reader: the bytes behind it and whether they have been read.
NewReader(d) == [data |-> d, consumed |-> FALSE]
NoReader == NewReader(NoData)

\* ------------------------------------------------------------------- state
VARIABLES
    converterRegistry, \* converter_factory.go:18  key -> creator (NoCreator = absent)
    rwWriter,          \* registryMutex: the goroutine holding Lock(), 0 if none
    rwReaders,         \* registryMutex: the goroutines holding RLock()
    maxSize,           \* ConverterPool.maxSize
    pools,             \* ConverterPool.pools: key -> buffered channel (a sequence)
    created,           \* ConverterPool.created: key -> int
    mu,                \* ConverterPool.mu: the goroutine holding it, 0 if none
    pc,                \* per goroutine: position in the code
    mode,              \* per goroutine: "api" (client call) or "exec" (inside Execute)
    key,               \* per goroutine: converterType / formatType argument
    conv,              \* per goroutine: converter argument or result
    err,               \* per goroutine: error result
    octx,              \* per goroutine: which call site CreateConverter returns to
    creator,           \* per goroutine: creator argument of RegisterConverter
    visited,           \* per goroutine: pools already ranged over by Put's loop
    held,              \* per client goroutine: the converter it last obtained
    calls,             \* number of client calls (Execute runs) still to be issued
    pipeline,          \* per executor goroutine: the *models.Pipeline argument
    res,               \* per executor goroutine: result, the *models.PipelineResult
    idx,               \* per executor goroutine: i+1 of the loop (0 before the loop)
    cur,               \* per executor goroutine: currentData
    cres,              \* per executor goroutine: conversionResult
    fs,                \* the file system: path -> content
    writes,            \* per executor goroutine: paths given to os.WriteFile in this run
    reads,             \* per executor goroutine: os.ReadFile calls made in this run
    registered,        \* history: key -> the creators RegisterConverter has stored for it
    bpipeline,         \* PipelineBuilder.pipeline: the one models.Pipeline object it points to
    built,             \* the (pipeline, error) pair the last Build() returned
    snapshot,          \* history: the value of the returned pipeline when Build() returned
    added,             \* history: the Add* calls made on the builder, in call order
    argFrom,           \* per goroutine: from argument of a client's Convert call
    argTo,             \* per goroutine: to argument of a client's Convert call
    reader,            \* per goroutine: input argument of a client's Convert call
    rpc,               \* lab1 Runner.Run: position in the code
    scanner,           \* lab1 Runner.Run: the bufio.Scanner over r.reader
    runQuery,          \* lab1 Runner.Run: the query argument
    lineNumber,        \* lab1 Runner.Run: lineNumber
    results,           \* lab1 Runner.Run: results
    written,           \* lab1: the lists r.writer.Write was called with, in call order
    runErr             \* lab1 Runner.Run: the error returned

execVars == <<pipeline, res, idx, cur, cres, fs, writes, reads>>
poolVars == <<maxSize, pools, created, mu>>
regVars == <<converterRegistry, rwWriter, rwReaders, registered>>
runVars == <<rpc, scanner, runQuery, lineNumber, results, written, runErr>>
builderVars == <<bpipeline, built, snapshot, added>>
convVars == <<argFrom, argTo, reader>>
vars == <<converterRegistry, rwWriter, rwReaders, registered, maxSize, pools,
          created, mu, pc, mode, key, conv, err, octx, creator, visited, held,
          calls, execVars, builderVars, convVars, runVars>>

\* lab1: bufio.NewScanner(r.reader) over a reader holding `lines`, whose
\* reads end with the error e (NoErr for io.EOF); pos lines were scanned.
NewScanner(lines, e) == [input |-> lines, pos |-> 0, err |-> e]
NoScanner == NewScanner(<<>>, NoErr)

\* The registry after every init() of the package has run.
InitRegistry ==
    [k \in AllKeys |->
        CASE k = "csv-json" -> CSVToJSONConverter
          [] k = "json-xml" -> JSONToXMLConverter
          [] k = "xml-yaml" -> XMLToYAMLConverter
          [] k = "json-csv" -> JSONToCSVConverter
          [] OTHER -> NoCreator]

\* The files before any run: a well-formed CSV file and one with unbalanced
\* quotes; every other path is absent.
GoodInput == <<"good.csv">>
BadInput == <<"bad.csv">>
MissingInput == <<"missing.csv">>
OutputPath == <<"out.yaml">>
InitFS == (GoodInput :> FileData(FormatCSV, TRUE)) @@ (BadInput :> FileData(FormatCSV, FALSE))

\* NewConverterPool(maxSize, factory): empty maps.
NewConverterPool(n) ==
    /\ maxSize = n
    /\ pools = <<>>
    /\ created = <<>>
    /\ mu = 0

InitCommon ==
    /\ converterRegistry = InitRegistry
    /\ rwWriter = 0
    /\ rwReaders = {}
    /\ registered = [k \in AllKeys |-> {InitRegistry[k]} \ {NoCreator}]
    /\ \E n \in 0..MaxPoolSize : NewConverterPool(n)
    /\ pc = [t \in Threads |-> "idle"]
    /\ key = [t \in Threads |-> "nil"]
    /\ conv = [t \in Threads |-> NoConv]
    /\ err = [t \in Threads |-> NoErr]
    /\ octx = [t \in Threads |-> "nil"]
    /\ creator = [t \in Threads |-> NoCreator]
    /\ visited = [t \in Threads |-> {}]
    /\ held = [t \in Threads |-> NoConv]
    /\ pipeline = [t \in Threads |-> NoPipeline]
    /\ res = [t \in Threads |-> NoPipelineResult]
    /\ idx = [t \in Threads |-> 0]
    /\ cur = [t \in Threads |-> NoData]
    /\ cres = [t \in Threads |-> NoResult]
    /\ fs = InitFS
    /\ writes = [t \in Threads |-> <<>>]
    /\ reads = [t \in Threads |-> 0]
    /\ bpipeline = NoPipeline
    /\ built = NoBuild
    /\ snapshot = NoSnapshot
    /\ added = <<>>
    /\ rpc = "idle"
    /\ scanner = NoScanner
    /\ runQuery = <<>>
    /\ lineNumber = 0
    /\ results = <<>>
    /\ written = <<>>
    /\ runErr = NoErr
    /\ argFrom = [t \in Threads |-> "nil"]
    /\ argTo = [t \in Threads |-> "nil"]
    /\ reader = [t \in Threads |-> NoReader]

\* Every goroutine is a client of the pool and the registry.
Init == InitCommon /\ mode = [t \in Threads |-> "api"] /\ calls = MaxCalls

\* ------------------------------------------------------------ map helpers
HasPool(k) == k \in DOMAIN pools
MapPut(m, k, v) == [x \in (DOMAIN m) \cup {k} |-> IF x = k THEN v ELSE m[x]]

\* Size(): total number of idle instances; Created(): total counted creations.
RECURSIVE SumOver(_, _)
SumOver(f, S) ==
    IF S = {} THEN 0
    ELSE LET x == CHOOSE y \in S : TRUE IN f[x] + SumOver(f, S \ {x})
Size == SumOver([k \in DOMAIN pools |-> Len(pools[k])], DOMAIN pools)
Created == SumOver(created, DOMAIN created)

\* --------------------------------------------------------------- registry
\* Mutant of CanLock: Lock() does not wait for the readers.
CanLockDespiteReaders == rwWriter = 0

\* sync.RWMutex: Lock() waits for the writer and every reader to leave,
\* RLock() for the writer.
CanLock == rwWriter = 0 /\ rwReaders = {}
CanRLock == rwWriter = 0

\* RegisterConverter, line 23: registryMutex.Lock().
RegLock(t) ==
    /\ pc[t] = "r_lock"
    /\ CanLock
    /\ rwWriter' = t
    /\ pc' = [pc EXCEPT ![t] = "r_write"]
    /\ UNCHANGED <<registered, converterRegistry, rwReaders, poolVars, mode, builderVars, convVars, runVars, key, conv, err,
                   octx, creator, visited, held, calls, execVars>>

\* Mutant of Store: a key that has a creator keeps it.
StoreIfAbsent(m, k, c) == IF m[k] = NoCreator THEN [m EXCEPT ![k] = c] ELSE m

\* RegisterConverter, line 25: converterRegistry[formatType] = creator.
Store(m, k, c) == [m EXCEPT ![k] = c]

\* RegisterConverter, lines 24-25: the write, then the deferred Unlock().
RegWrite(t) ==
    /\ pc[t] = "r_write"
    /\ converterRegistry' = Store(converterRegistry, key[t], creator[t])
    /\ registered' = [registered EXCEPT ![key[t]] = @ \cup {creator[t]}]
    /\ rwWriter' = 0
    /\ pc' = [pc EXCEPT ![t] = "idle"]
    /\ key' = [key EXCEPT ![t] = "nil"]
    /\ creator' = [creator EXCEPT ![t] = NoCreator]
    /\ UNCHANGED <<rwReaders, poolVars, mode, builderVars, convVars, runVars, conv, err, octx, visited, held,
                   calls, execVars>>

\* CreateConverter, line 39: registryMutex.RLock().
CreateRLock(t) ==
    /\ pc[t] = "c_rlock"
    /\ CanRLock
    /\ rwReaders' = rwReaders \cup {t}
    /\ pc' = [pc EXCEPT ![t] = "c_lookup"]
    /\ UNCHANGED <<registered, converterRegistry, rwWriter, poolVars, mode, builderVars, convVars, runVars, key, conv, err,
                   octx, creator, visited, held, calls, execVars>>

\* Mutant of CreateReturn: the fallback path of Get counts its instance too.
CreateReturnAlwaysCounted(t) ==
    IF octx[t] = "direct" THEN "made" ELSE "g_counted"

\* Where CreateConverter returns to: a client, Get's counted path (line 46) or
\* Get's fallback path (line 61).
GetReturn(t) == IF mode[t] = "api" THEN "got" ELSE "x_got"
CreateReturn(t) ==
    CASE octx[t] = "direct" -> "made"
      [] octx[t] = "counted" -> "g_counted"
      [] octx[t] = "temp" -> GetReturn(t)

\* Mutant of Construct: the factory builds one fixed struct for every key.
ConstructFixed(t) == NewInstance(CSVToJSONConverter, key[t], octx[t])

\* CreateConverter, line 47: creator(), a fresh instance of the creator's struct.
Construct(t) == NewInstance(converterRegistry[key[t]], key[t], octx[t])

\* CreateConverter, lines 40-47: the lookup, RUnlock(), then either the
\* "unsupported converter type" error or creator().
CreateLookup(t) ==
    /\ pc[t] = "c_lookup"
    /\ rwReaders' = rwReaders \ {t}
    /\ IF converterRegistry[key[t]] = NoCreator
       THEN /\ conv' = [conv EXCEPT ![t] = NoConv]
            /\ err' = [err EXCEPT ![t] = ErrUnsupportedType]
       ELSE /\ conv' = [conv EXCEPT ![t] = Construct(t)]
            /\ err' = [err EXCEPT ![t] = NoErr]
    /\ pc' = [pc EXCEPT ![t] = CreateReturn(t)]
    /\ UNCHANGED <<registered, converterRegistry, rwWriter, poolVars, mode, builderVars, convVars, runVars, key, octx,
                   creator, visited, held, calls, execVars>>

\* ------------------------------------------------------------------- Get
\* Get, line 30: p.mu.Lock().
GetLock(t) ==
    /\ pc[t] = "g_lock"
    /\ mu = 0
    /\ mu' = t
    /\ pc' = [pc EXCEPT ![t] = "g_ensure"]
    /\ UNCHANGED <<regVars, maxSize, pools, created, mode, builderVars, convVars, runVars, key, conv, err, octx,
                   creator, visited, held, calls, execVars>>

\* Get, lines 32-38: make the key's channel and counter if absent, Unlock().
GetEnsure(t) ==
    /\ pc[t] = "g_ensure"
    /\ IF ~HasPool(key[t])
       THEN /\ pools' = MapPut(pools, key[t], <<>>)
            /\ created' = MapPut(created, key[t], 0)
       ELSE UNCHANGED <<pools, created>>
    /\ mu' = 0
    /\ pc' = [pc EXCEPT ![t] = "g_sel1"]
    /\ UNCHANGED <<regVars, maxSize, mode, builderVars, convVars, runVars, key, conv, err, octx, creator,
                   visited, held, calls, execVars>>

\* Get, lines 40-43: non-blocking receive from the key's channel.
GetSelect1(t) ==
    /\ pc[t] = "g_sel1"
    /\ IF pools[key[t]] # <<>>
       THEN /\ conv' = [conv EXCEPT ![t] = Head(pools[key[t]])]
            /\ pools' = [pools EXCEPT ![key[t]] = Tail(@)]
            /\ pc' = [pc EXCEPT ![t] = GetReturn(t)]
       ELSE /\ pc' = [pc EXCEPT ![t] = "g_lock2"]
            /\ UNCHANGED <<conv, pools>>
    /\ UNCHANGED <<regVars, maxSize, created, mu, mode, builderVars, convVars, runVars, key, err, octx, creator,
                   visited, held, calls, execVars>>

\* Get, line 44: p.mu.Lock() on the default branch.
GetLock2(t) ==
    /\ pc[t] = "g_lock2"
    /\ mu = 0
    /\ mu' = t
    /\ pc' = [pc EXCEPT ![t] = "g_check"]
    /\ UNCHANGED <<regVars, maxSize, pools, created, mode, builderVars, convVars, runVars, key, conv, err, octx,
                   creator, visited, held, calls, execVars>>

\* Mutant of UnderCap: a maxSize of 0 means no cap.
UnderCapUnlimitedAtZero(k) == created[k] < maxSize \/ maxSize = 0

\* Mutant of UnderCap: the cap check is off by one.
UnderCapOffByOne(k) == created[k] <= maxSize

\* Get, line 45: the cap check.
UnderCap(k) == created[k] < maxSize

\* Get, lines 45-46 and 55: under the cap call the factory keeping the
\* mutex, else Unlock() and go to the second select.
GetCheck(t) ==
    /\ pc[t] = "g_check"
    /\ IF UnderCap(key[t])
       THEN /\ octx' = [octx EXCEPT ![t] = "counted"]
            /\ pc' = [pc EXCEPT ![t] = "c_rlock"]
            /\ mu' = mu
       ELSE /\ mu' = 0
            /\ pc' = [pc EXCEPT ![t] = "g_sel2"]
            /\ octx' = octx
    /\ UNCHANGED <<regVars, maxSize, pools, created, mode, builderVars, convVars, runVars, key, conv, err,
                   creator, visited, held, calls, execVars>>

\* Mutant of MuAfterCreateError: the error path returns without Unlock().
MuKeptOnCreateError(t) == mu

\* Get, line 48: the mutex after the factory failed.
MuAfterCreateError(t) == 0

\* Get, lines 47-53: on error Unlock() and return it; else count the
\* instance, Unlock() and return it.
GetCounted(t) ==
    /\ pc[t] = "g_counted"
    /\ IF err[t] # NoErr
       THEN /\ mu' = MuAfterCreateError(t)
            /\ created' = created
       ELSE /\ created' = [created EXCEPT ![key[t]] = @ + 1]
            /\ mu' = 0
    /\ pc' = [pc EXCEPT ![t] = GetReturn(t)]
    /\ octx' = [octx EXCEPT ![t] = "nil"]
    /\ UNCHANGED <<regVars, maxSize, pools, mode, builderVars, convVars, runVars, key, conv, err, creator,
                   visited, held, calls, execVars>>

\* Get, lines 57-61: second non-blocking receive, else the factory builds a
\* temporary instance.
GetSelect2(t) ==
    /\ pc[t] = "g_sel2"
    /\ IF pools[key[t]] # <<>>
       THEN /\ conv' = [conv EXCEPT ![t] = Head(pools[key[t]])]
            /\ pools' = [pools EXCEPT ![key[t]] = Tail(@)]
            /\ pc' = [pc EXCEPT ![t] = GetReturn(t)]
            /\ octx' = octx
       ELSE /\ octx' = [octx EXCEPT ![t] = "temp"]
            /\ pc' = [pc EXCEPT ![t] = "c_rlock"]
            /\ UNCHANGED <<conv, pools>>
    /\ UNCHANGED <<regVars, maxSize, created, mu, mode, builderVars, convVars, runVars, key, err, creator,
                   visited, held, calls, execVars>>

\* ------------------------------------------------------------------- Put
\* Put, line 67: p.mu.Lock().
PutLock(t) ==
    /\ pc[t] = "p_lock"
    /\ mu = 0
    /\ mu' = t
    /\ visited' = [visited EXCEPT ![t] = {}]
    /\ pc' = [pc EXCEPT ![t] = "p_range"]
    /\ UNCHANGED <<regVars, maxSize, pools, created, mode, builderVars, convVars, runVars, key, conv, err, octx,
                   creator, held, calls, execVars>>

\* Mutant of HasRoom: the channel is one slot larger than maxSize.
HasRoomOffByOne(k) == Len(pools[k]) <= maxSize

\* Put, line 72: the non-blocking send succeeds when the channel has room.
HasRoom(k) == Len(pools[k]) < maxSize

\* Where Put returns to.
PutReturn(t) == IF mode[t] = "api" THEN "idle" ELSE "x_append"

\* Put, lines 70-77: one iteration of the range over p.pools (Go ranges
\* over a map in an unspecified order), or the end of the loop; the
\* deferred Unlock() runs on return.  The caller has handed the converter
\* over: its conv is cleared on return.
PutRange(t) ==
    /\ pc[t] = "p_range"
    /\ IF DOMAIN pools \subseteq visited[t]
       THEN /\ mu' = 0
            /\ pc' = [pc EXCEPT ![t] = PutReturn(t)]
            /\ visited' = [visited EXCEPT ![t] = {}]
            /\ conv' = [conv EXCEPT ![t] = NoConv]
            /\ pools' = pools
       ELSE \E k \in DOMAIN pools \ visited[t] :
              IF HasRoom(k)
              THEN /\ pools' = [pools EXCEPT ![k] = Append(@, conv[t])]
                   /\ mu' = 0
                   /\ pc' = [pc EXCEPT ![t] = PutReturn(t)]
                   /\ visited' = [visited EXCEPT ![t] = {}]
                   /\ conv' = [conv EXCEPT ![t] = NoConv]
              ELSE /\ visited' = [visited EXCEPT ![t] = @ \cup {k}]
                   /\ UNCHANGED <<pools, mu, pc, conv>>
    /\ UNCHANGED <<regVars, maxSize, created, mode, builderVars, convVars, runVars, key, err, octx, creator,
                   held, calls, execVars>>

\* -------------------------------------------------------------- converters
\* The (from, to) pair each converter struct accepts in Convert.
PairOf(c) ==
    CASE c = CSVToJSONConverter -> <<FormatCSV, FormatJSON>>
      [] c = JSONToXMLConverter -> <<FormatJSON, FormatXML>>
      [] c = XMLToYAMLConverter -> <<FormatXML, FormatYAML>>
      [] c = JSONToCSVConverter -> <<FormatJSON, FormatCSV>>

\* The parsers (csv.Reader, json.Unmarshal, mxj.NewMapXml) accept the bytes.
Parses(from, d) == d.wellformed /\ d.format = from

\* Mutant of Convert: a failed parse hands back the bytes read so far, under
\* the target format, together with the error.
ConvertKeepingPartial(c, in, from, to) ==
    IF <<from, to>> # PairOf(c.ctor)
    THEN ConversionResult(NoData, "nil", ErrUnsupportedConversion)
    ELSE IF ~Parses(from, in)
    THEN ConversionResult(in, to, ErrParse)
    ELSE ConversionResult([format |-> to, wellformed |-> TRUE,
                           trail |-> Append(in.trail, c.ctor)], to, NoErr)

\* Mutant of Convert: no (from, to) guard, the converter parses what it gets.
ConvertWithoutGuard(c, in, from, to) ==
    IF ~Parses(from, in)
    THEN ConversionResult(NoData, "nil", ErrParse)
    ELSE ConversionResult([format |-> to, wellformed |-> TRUE,
                           trail |-> Append(in.trail, c.ctor)], to, NoErr)

\* Convert of the converter structs: the (from, to) guard, the parse of the
\* input, then the output in the target format.
Convert(c, in, from, to) ==
    IF <<from, to>> # PairOf(c.ctor)
    THEN ConversionResult(NoData, "nil", ErrUnsupportedConversion)
    ELSE IF ~Parses(from, in)
    THEN ConversionResult(NoData, "nil", ErrParse)
    ELSE ConversionResult([format |-> to, wellformed |-> TRUE,
                           trail |-> Append(in.trail, c.ctor)], to, NoErr)

\* Convert reads its input (csv.Reader.ReadAll, io.ReadAll, Decode) only
\* after the (from, to) guard has let the call through.
ReadsInput(c, from, to) == <<from, to>> = PairOf(c.ctor)

\* Mutant of SupportsFormat: only the source format is declared.
SupportsSourceOnly(c, format) == format = PairOf(c.ctor)[1]

\* SupportsFormat of the converter structs: format == <one> || format == <other>.
SupportsFormat(c, format) ==
    CASE c.ctor = CSVToJSONConverter -> format = FormatCSV \/ format = FormatJSON
      [] c.ctor = JSONToXMLConverter -> format = FormatJSON \/ format = FormatXML
      [] c.ctor = XMLToYAMLConverter -> format = FormatXML \/ format = FormatYAML
      [] c.ctor = JSONToCSVConverter -> format = FormatJSON \/ format = FormatCSV

\* --------------------------------------------------------------- executor
\* Execute, line 142: string(step.From) + "-" + string(step.To).
KeyOf(from, to) ==
    CASE from = FormatCSV /\ to = FormatJSON -> "csv-json"
      [] from = FormatJSON /\ to = FormatXML -> "json-xml"
      [] from = FormatXML /\ to = FormatYAML -> "xml-yaml"
      [] from = FormatJSON /\ to = FormatCSV -> "json-csv"
      [] from = FormatYAML /\ to = FormatCSV -> "yaml-csv"

\* models.ConversionStep values the pipelines are made of; no converter is
\* registered for yaml -> csv.
ExecSteps == {[From |-> FormatCSV, To |-> FormatJSON],
              [From |-> FormatJSON, To |-> FormatXML],
              [From |-> FormatYAML, To |-> FormatCSV]}
\* An output path that is also the path of the first step's side file.
SideOutputPath == <<"steps", 1, FormatCSV, FormatJSON, FormatJSON>>
Pipelines ==
    {NewPipeline(ss, [NoOptions EXCEPT !.Save = sv], ip, op) :
        ss \in UNION {[1..n -> ExecSteps] : n \in 0..MaxSteps},
        sv \in BOOLEAN,
        ip \in {GoodInput, BadInput, MissingInput},
        op \in {OutputPath, SideOutputPath}}

Step(t) == pipeline[t].Steps[idx[t]]
\* os.WriteFile(name, data, 0644) when it succeeds.
WriteFile(f, name, data) == (name :> data) @@ f
\* One call of os.WriteFile: the call site ("step" is line 172, "output" is
\* line 180), the path and whether the environment let it succeed.
WriteCall(site, name, ok) == [site |-> site, path |-> name, ok |-> ok]
\* Mutant of StepFileName: the step number is the loop index i, not i+1.
StepFileNameZeroBased(i, st) == <<"steps", i - 1, st.From, st.To, st.To>>

\* Execute, lines 170-171: filepath.Join("steps", "step_%d_%s_to_%s.%s").
StepFileName(i, st) == <<"steps", i, st.From, st.To, st.To>>

\* Mutant of NewResult: make([]*models.ConversionResult, 1), one nil entry.
NewResultPreallocated == PipelineResult(TRUE, <<NoResult>>, NoPipelineError)

\* Execute, lines 114-117: Success true, Results empty, no Error.
NewResult == PipelineResult(TRUE, <<>>, NoPipelineError)

\* Mutant of Failed: the error is set and Success is left as it was.
FailedKeepingSuccess(r, e) == PipelineResult(r.Success, r.Results, e)

\* result.Success = false; result.Error = fmt.Errorf(...); return result
Failed(r, e) == PipelineResult(FALSE, r.Results, e)

\* Execute, lines 113-140: the empty-pipeline check, os.ReadFile,
\* os.MkdirAll (which the environment may fail), currentData := inputData.
ExecBeginWith(t, P) ==
    /\ pc[t] = "idle" /\ mode[t] = "exec"
    /\ calls > 0
    /\ calls' = calls - 1
    /\ \E p \in P, mkdirOk \in BOOLEAN :
         LET r == NewResult IN
         /\ pipeline' = [pipeline EXCEPT ![t] = p]
         /\ reads' = [reads EXCEPT ![t] = IF Len(p.Steps) = 0 THEN 0 ELSE 1]
         /\ IF Len(p.Steps) = 0
            THEN /\ res' = [res EXCEPT ![t] = Failed(r,
                        PipelineError("no conversion steps in pipeline", 0,
                                      "nil", "nil", NoCause))]
                 /\ pc' = [pc EXCEPT ![t] = "x_done"]
                 /\ UNCHANGED <<cur, idx>>
            ELSE IF p.InputPath \notin DOMAIN fs
            THEN /\ res' = [res EXCEPT ![t] = Failed(r,
                        PipelineError("failed to read input file", 0,
                                      "nil", "nil",
                                      Cause("no such file", "nil", p.InputPath)))]
                 /\ pc' = [pc EXCEPT ![t] = "x_done"]
                 /\ UNCHANGED <<cur, idx>>
            ELSE IF p.Save /\ ~mkdirOk
            THEN /\ res' = [res EXCEPT ![t] = Failed(r,
                        PipelineError("failed to create steps directory", 0,
                                      "nil", "nil",
                                      Cause("mkdir failed", "nil", <<"steps">>)))]
                 /\ pc' = [pc EXCEPT ![t] = "x_done"]
                 /\ UNCHANGED <<cur, idx>>
            ELSE /\ res' = [res EXCEPT ![t] = r]
                 /\ cur' = [cur EXCEPT ![t] = fs[p.InputPath]]
                 /\ idx' = [idx EXCEPT ![t] = 1]
                 /\ pc' = [pc EXCEPT ![t] = "x_loop"]
    /\ UNCHANGED <<regVars, poolVars, mode, builderVars, convVars, runVars, key, conv, err, octx, creator,
                   visited, held, cres, fs, writes>>

\* The executor is handed any of the pipelines.
ExecBegin(t) == ExecBeginWith(t, Pipelines)

\* Mutant of StepNumber: the message prints the loop index i.
StepNumberZeroBased(t) == idx[t] - 1

\* Execute, lines 146, 156 and 174: the messages print i+1.
StepNumber(t) == idx[t]

\* Mutant of LoopDone: the loop ends after its first iteration.
LoopDoneAfterFirst(t) == idx[t] > 1

\* Execute, line 141: the range over pipeline.Steps is exhausted.
LoopDone(t) == idx[t] > Len(pipeline[t].Steps)

\* Execute, lines 141-143: the next step's key, then e.pool.Get(converterType).
ExecAcquire(t) ==
    /\ pc[t] = "x_loop" /\ ~LoopDone(t)
    /\ key' = [key EXCEPT ![t] = KeyOf(Step(t).From, Step(t).To)]
    /\ pc' = [pc EXCEPT ![t] = "g_lock"]
    /\ UNCHANGED <<regVars, poolVars, mode, builderVars, convVars, runVars, conv, err, octx, creator, visited,
                   held, calls, execVars>>

\* Mutant of AfterConvert: the converter is not put back.
SkipPut(t) == "x_append"

\* Execute, line 156: what follows Convert is e.pool.Put(converter).
AfterConvert(t) == "p_lock"

\* Execute, lines 144-156: the error of Get ends the run; else Convert runs
\* on currentData and the converter goes back with Put.
ExecGot(t) ==
    /\ pc[t] = "x_got"
    /\ IF err[t] # NoErr
       THEN /\ res' = [res EXCEPT ![t] = Failed(@,
                   PipelineError(ErrGetConverter, StepNumber(t),
                                 "nil", "nil", Cause(err[t], key[t], <<>>)))]
            /\ pc' = [pc EXCEPT ![t] = "x_done"]
            /\ cres' = cres
       ELSE /\ cres' = [cres EXCEPT ![t] =
                   Convert(conv[t], cur[t], Step(t).From, Step(t).To)]
            /\ pc' = [pc EXCEPT ![t] = AfterConvert(t)]
            /\ res' = res
    /\ key' = [key EXCEPT ![t] = "nil"]
    /\ err' = [err EXCEPT ![t] = NoErr]
    /\ octx' = [octx EXCEPT ![t] = "nil"]
    /\ UNCHANGED <<regVars, poolVars, mode, builderVars, convVars, runVars, conv, creator, visited, held, calls,
                   pipeline, idx, cur, fs, writes, reads>>

\* Mutant of NextInput: currentData is left as it was.
NextInputUnchanged(t) == cur[t]

\* Execute, line 166: currentData = result.Data.
NextInput(t) == cres[t].Data

\* Mutant of RecordResult: the result of a failed conversion is not recorded.
RecordUnlessFailed(rs, r) == IF r.Error # NoErr THEN rs ELSE Append(rs, r)
\* Mutant of StepFailed: the error of the step is not checked.
StepFailedNever(r) == FALSE

\* Execute, line 158: result.Results = append(result.Results, conversionResult).
RecordResult(rs, r) == Append(rs, r)
\* Execute, line 160: conversionResult.Error != nil.
StepFailed(r) == r.Error # NoErr

\* Execute, lines 158-177: record the step's result; a conversion error ends
\* the run; else the data is chained and, with SaveIntermediarySteps, written
\* to the step file (which the environment may fail).
ExecAppend(t) ==
    /\ pc[t] = "x_append"
    /\ LET rs == RecordResult(res[t].Results, cres[t])
           st == Step(t) IN
       IF StepFailed(cres[t])
       THEN /\ res' = [res EXCEPT ![t] = PipelineResult(FALSE, rs,
                   PipelineError("step failed", StepNumber(t), st.From, st.To,
                                 Cause(cres[t].Error, "nil", <<>>)))]
            /\ pc' = [pc EXCEPT ![t] = "x_done"]
            /\ UNCHANGED <<cur, idx, fs, writes>>
       ELSE /\ cur' = [cur EXCEPT ![t] = NextInput(t)]
            /\ \E writeOk \in BOOLEAN :
                 /\ writes' = IF pipeline[t].Save
                        THEN [writes EXCEPT ![t] = Append(@,
                                 WriteCall("step", StepFileName(idx[t], st), writeOk))]
                        ELSE writes
                 /\ IF pipeline[t].Save /\ ~writeOk
                    THEN /\ res' = [res EXCEPT ![t] = PipelineResult(FALSE, rs,
                                PipelineError("failed to save intermediary step",
                                              StepNumber(t), "nil", "nil",
                                              Cause("write failed", "nil",
                                                    StepFileName(idx[t], st))))]
                         /\ pc' = [pc EXCEPT ![t] = "x_done"]
                         /\ UNCHANGED <<idx, fs>>
                    ELSE /\ res' = [res EXCEPT ![t] = PipelineResult(TRUE, rs, @.Error)]
                         /\ fs' = IF pipeline[t].Save
                                  THEN WriteFile(fs, StepFileName(idx[t], st), cres[t].Data)
                                  ELSE fs
                         /\ idx' = [idx EXCEPT ![t] = @ + 1]
                         /\ pc' = [pc EXCEPT ![t] = "x_loop"]
    /\ cres' = [cres EXCEPT ![t] = NoResult]
    /\ UNCHANGED <<regVars, poolVars, mode, builderVars, convVars, runVars, key, conv, err, octx, creator,
                   visited, held, calls, pipeline, reads>>

\* Mutant of OutputData: the input bytes are written, not the last output.
OutputIsInput(t) == fs[pipeline[t].InputPath]

\* Execute, line 180: the bytes of the final write are currentData.
OutputData(t) == cur[t]

\* Execute, lines 113 and 186: time.Since(start), in logical time: one unit
\* for each loop iteration begun and one for the final write.
Since(t) == idx[t]

\* Execute, lines 180-187: after the last step, os.WriteFile(OutputPath),
\* which the environment may fail.
ExecFinalize(t) ==
    /\ pc[t] = "x_loop" /\ LoopDone(t)
    /\ \E writeOk \in BOOLEAN :
         /\ writes' = [writes EXCEPT ![t] = Append(@,
                           WriteCall("output", pipeline[t].OutputPath, writeOk))]
         /\ IF writeOk
            THEN /\ fs' = WriteFile(fs, pipeline[t].OutputPath, OutputData(t))
                 /\ res' = [res EXCEPT ![t].Duration = Since(t)]
            ELSE /\ res' = [res EXCEPT ![t] = Failed(@,
                        PipelineError("failed to write output file", 0, "nil",
                                      "nil",
                                      Cause("write failed", "nil",
                                            pipeline[t].OutputPath)))]
                 /\ fs' = fs
    /\ pc' = [pc EXCEPT ![t] = "x_done"]
    /\ UNCHANGED <<regVars, poolVars, mode, builderVars, convVars, runVars, key, conv, err, octx, creator,
                   visited, held, calls, pipeline, idx, cur, cres, reads>>

\* The caller of Execute has taken the PipelineResult.
ExecReturn(t) ==
    /\ pc[t] = "x_done"
    /\ pc' = [pc EXCEPT ![t] = "idle"]
    /\ pipeline' = [pipeline EXCEPT ![t] = NoPipeline]
    /\ res' = [res EXCEPT ![t] = NoPipelineResult]
    /\ idx' = [idx EXCEPT ![t] = 0]
    /\ cur' = [cur EXCEPT ![t] = NoData]
    /\ writes' = [writes EXCEPT ![t] = <<>>]
    /\ reads' = [reads EXCEPT ![t] = 0]
    /\ UNCHANGED <<regVars, poolVars, mode, builderVars, convVars, runVars, key, conv, err, octx, creator,
                   visited, held, calls, cres, fs>>

\* --------------------------------------------------------------- clients
\* Creators a client may register at run time, and the keys it registers.
RegisterKeys == {"yaml-csv"}
RegisterCreators == {JSONToCSVConverter}

\* A client goroutine calls pool.Get(k).
CallGet(t) ==
    /\ pc[t] = "idle" /\ mode[t] = "api"
    /\ calls > 0
    /\ calls' = calls - 1
    /\ \E k \in PoolKeys : key' = [key EXCEPT ![t] = k]
    /\ pc' = [pc EXCEPT ![t] = "g_lock"]
    /\ UNCHANGED <<regVars, poolVars, mode, builderVars, convVars, runVars, conv, err, octx, creator, visited,
                   held>>
    /\ UNCHANGED execVars

\* A client goroutine calls pool.Put(c) with the converter it holds or with
\* one the pool never handed out.
CallPut(t) ==
    /\ pc[t] = "idle" /\ mode[t] = "api"
    /\ calls > 0
    /\ calls' = calls - 1
    /\ \E c \in ({held[t]} \ {NoConv}) \cup ForeignInstances :
          conv' = [conv EXCEPT ![t] = c]
    /\ pc' = [pc EXCEPT ![t] = "p_lock"]
    /\ UNCHANGED <<regVars, poolVars, mode, builderVars, convVars, runVars, key, err, octx, creator, visited,
                   held>>
    /\ UNCHANGED execVars

\* A client goroutine calls factory.CreateConverter(k).
CallCreate(t) ==
    /\ pc[t] = "idle" /\ mode[t] = "api"
    /\ calls > 0
    /\ calls' = calls - 1
    /\ \E k \in PoolKeys : key' = [key EXCEPT ![t] = k]
    /\ octx' = [octx EXCEPT ![t] = "direct"]
    /\ pc' = [pc EXCEPT ![t] = "c_rlock"]
    /\ UNCHANGED <<regVars, poolVars, mode, builderVars, convVars, runVars, conv, err, creator, visited, held>>
    /\ UNCHANGED execVars

\* A client goroutine calls RegisterConverter(k, c).
CallRegister(t) ==
    /\ pc[t] = "idle" /\ mode[t] = "api"
    /\ calls > 0
    /\ calls' = calls - 1
    /\ \E k \in RegisterKeys, c \in RegisterCreators :
          /\ key' = [key EXCEPT ![t] = k]
          /\ creator' = [creator EXCEPT ![t] = c]
    /\ pc' = [pc EXCEPT ![t] = "r_lock"]
    /\ UNCHANGED <<regVars, poolVars, mode, builderVars, convVars, runVars, conv, err, octx, visited, held>>
    /\ UNCHANGED execVars

\* The client receives the result of Get or CreateConverter: it keeps the
\* converter when there is no error (client/main.go:97-102).
ClientTake(t) ==
    /\ pc[t] \in {"got", "made"} /\ mode[t] = "api"
    /\ held' = [held EXCEPT ![t] = IF err[t] = NoErr THEN conv[t] ELSE @]
    /\ pc' = [pc EXCEPT ![t] = "idle"]
    /\ key' = [key EXCEPT ![t] = "nil"]
    /\ conv' = [conv EXCEPT ![t] = NoConv]
    /\ err' = [err EXCEPT ![t] = NoErr]
    /\ octx' = [octx EXCEPT ![t] = "nil"]
    /\ UNCHANGED <<regVars, poolVars, mode, builderVars, convVars, runVars, creator, visited, calls, execVars>>

GetStep(t) ==
    \/ GetLock(t) \/ GetEnsure(t) \/ GetSelect1(t) \/ GetLock2(t)
    \/ GetCheck(t) \/ GetCounted(t) \/ GetSelect2(t)
PutStep(t) == PutLock(t) \/ PutRange(t)
CreateStep(t) == CreateRLock(t) \/ CreateLookup(t)
RegStep(t) == RegLock(t) \/ RegWrite(t)
PoolStep(t) == GetStep(t) \/ PutStep(t) \/ CreateStep(t) \/ RegStep(t)

ClientStep(t) ==
    \/ CallGet(t) \/ CallPut(t) \/ CallCreate(t) \/ CallRegister(t)
    \/ ClientTake(t)

Next == \E t \in Threads : PoolStep(t) \/ ClientStep(t)

Spec == Init /\ [][Next]_vars

\* Goroutine 1 runs pipelines, one after the other, through a
\* PipelineExecutor over the pool; the other goroutines stay idle.
InitExec ==
    /\ InitCommon
    /\ mode = [t \in Threads |-> IF t = 1 THEN "exec" ELSE "api"]
    /\ calls = MaxRuns

ExecStep(t) ==
    \/ ExecBegin(t) \/ ExecAcquire(t) \/ ExecGot(t) \/ ExecAppend(t)
    \/ ExecFinalize(t) \/ ExecReturn(t)

NextExec == \E t \in Threads : GetStep(t) \/ PutStep(t) \/ CreateStep(t) \/ ExecStep(t)

ExecSpec == InitExec /\ [][NextExec]_vars

\* ------------------------------------------ executors sharing one pool
\* Every goroutine runs the same two-step pipeline on the good input,
\* through executors over the one pool, at most MaxSharedRuns runs in all.
SharedPipelines ==
    {p \in Pipelines :
        /\ p.Steps = <<[From |-> FormatCSV, To |-> FormatJSON],
                       [From |-> FormatJSON, To |-> FormatXML]>>
        /\ p.InputPath = GoodInput
        /\ p.OutputPath = OutputPath
        /\ ~p.Save}

SharedBegin(t) == ExecBeginWith(t, SharedPipelines)

InitShared ==
    /\ InitCommon
    /\ mode = [t \in Threads |-> "exec"]
    /\ calls = MaxSharedRuns

SharedStep(t) ==
    \/ SharedBegin(t) \/ ExecAcquire(t) \/ ExecGot(t) \/ ExecAppend(t)
    \/ ExecFinalize(t) \/ ExecReturn(t)

NextShared ==
    \E t \in Threads : GetStep(t) \/ PutStep(t) \/ CreateStep(t) \/ SharedStep(t)

SharedSpec == InitShared /\ [][NextShared]_vars

\* --------------------------------------------------- registry under load
\* Registrations issued while lookups run: any of these creators for any of
\* the keys the clients look up, so that a key registered by init() gets
\* overwritten and an absent key gets inserted.
OverwriteKeys == PoolKeys
OverwriteCreators == {JSONToCSVConverter, XMLToYAMLConverter}

\* A client goroutine calls RegisterConverter(k, c) for one of these.
CallRegisterAny(t) ==
    /\ pc[t] = "idle" /\ mode[t] = "api"
    /\ calls > 0
    /\ calls' = calls - 1
    /\ \E k \in OverwriteKeys, c \in OverwriteCreators :
          /\ key' = [key EXCEPT ![t] = k]
          /\ creator' = [creator EXCEPT ![t] = c]
    /\ pc' = [pc EXCEPT ![t] = "r_lock"]
    /\ UNCHANGED <<regVars, poolVars, mode, conv, err, octx, visited, held,
                   execVars, builderVars, convVars, runVars>>

\* Every goroutine registers creators and creates converters through the
\* factory, concurrently.
InitReg == InitCommon /\ mode = [t \in Threads |-> "api"] /\ calls = MaxRegCalls

NextReg ==
    \E t \in Threads :
        \/ CreateStep(t) \/ RegStep(t)
        \/ CallCreate(t) \/ CallRegisterAny(t) \/ ClientTake(t)

RegSpec == InitReg /\ [][NextReg]_vars

\* ------------------------------------------------------- converter calls
Formats == {FormatCSV, FormatJSON, FormatXML, FormatYAML}
\* The bytes a client hands to Convert: any format, parseable or not.
ConvInputs == {FileData(f, ok) : f \in Formats, ok \in BOOLEAN}
\* One instance per registered key, made by the factory for the client.
FactoryInstances ==
    {NewInstance(InitRegistry[k], k, "direct") :
        k \in {x \in AllKeys : InitRegistry[x] # NoCreator}}

\* The client calls converter.Convert(strings.NewReader(data), from, to).
CallConvert(t) ==
    /\ pc[t] = "idle" /\ mode[t] = "conv"
    /\ \E d \in ConvInputs, f \in Formats, g \in Formats :
          /\ reader' = [reader EXCEPT ![t] = NewReader(d)]
          /\ argFrom' = [argFrom EXCEPT ![t] = f]
          /\ argTo' = [argTo EXCEPT ![t] = g]
    /\ pc' = [pc EXCEPT ![t] = "v_run"]
    /\ UNCHANGED <<regVars, poolVars, mode, key, conv, err, octx, creator,
                   visited, held, calls, execVars, builderVars, runVars>>

\* Convert runs on the client's converter.
ConvertRun(t) ==
    /\ pc[t] = "v_run"
    /\ cres' = [cres EXCEPT ![t] =
                   Convert(held[t], reader[t].data, argFrom[t], argTo[t])]
    /\ reader' = [reader EXCEPT ![t].consumed =
                     ReadsInput(held[t], argFrom[t], argTo[t])]
    /\ pc' = [pc EXCEPT ![t] = "converted"]
    /\ UNCHANGED <<regVars, poolVars, mode, key, conv, err, octx, creator,
                   visited, held, calls, pipeline, res, idx, cur, fs, writes, reads,
                   builderVars, runVars, argFrom, argTo>>

\* The client has looked at the ConversionResult (client/main.go:44-48).
ConvertTake(t) ==
    /\ pc[t] = "converted"
    /\ pc' = [pc EXCEPT ![t] = "idle"]
    /\ cres' = [cres EXCEPT ![t] = NoResult]
    /\ reader' = [reader EXCEPT ![t] = NoReader]
    /\ argFrom' = [argFrom EXCEPT ![t] = "nil"]
    /\ argTo' = [argTo EXCEPT ![t] = "nil"]
    /\ UNCHANGED <<regVars, poolVars, mode, key, conv, err, octx, creator,
                   visited, held, calls, pipeline, res, idx, cur, fs, writes, reads,
                   builderVars, runVars>>

\* Goroutine 1 holds a converter the factory made, one of the kinds in C, and
\* calls it in mode m; nothing else has run.
InitHolding(m, C) ==
    /\ converterRegistry = InitRegistry
    /\ rwWriter = 0
    /\ rwReaders = {}
    /\ registered = [k \in AllKeys |-> {InitRegistry[k]} \ {NoCreator}]
    /\ NewConverterPool(MaxPoolSize)
    /\ pc = [t \in Threads |-> "idle"]
    /\ mode = [t \in Threads |-> IF t = 1 THEN m ELSE "api"]
    /\ key = [t \in Threads |-> "nil"]
    /\ conv = [t \in Threads |-> NoConv]
    /\ err = [t \in Threads |-> NoErr]
    /\ octx = [t \in Threads |-> "nil"]
    /\ creator = [t \in Threads |-> NoCreator]
    /\ visited = [t \in Threads |-> {}]
    /\ \E c \in C :
          held = [t \in Threads |-> IF t = 1 THEN c ELSE NoConv]
    /\ calls = 0
    /\ pipeline = [t \in Threads |-> NoPipeline]
    /\ res = [t \in Threads |-> NoPipelineResult]
    /\ idx = [t \in Threads |-> 0]
    /\ cur = [t \in Threads |-> NoData]
    /\ cres = [t \in Threads |-> NoResult]
    /\ fs = InitFS
    /\ writes = [t \in Threads |-> <<>>]
    /\ reads = [t \in Threads |-> 0]
    /\ bpipeline = NoPipeline
    /\ built = NoBuild
    /\ snapshot = NoSnapshot
    /\ added = <<>>
    /\ rpc = "idle"
    /\ scanner = NoScanner
    /\ runQuery = <<>>
    /\ lineNumber = 0
    /\ results = <<>>
    /\ written = <<>>
    /\ runErr = NoErr
    /\ argFrom = [t \in Threads |-> "nil"]
    /\ argTo = [t \in Threads |-> "nil"]
    /\ reader = [t \in Threads |-> NoReader]

\* Goroutine 1 holds a converter of one of the registered kinds and calls
\* Convert on it with every kind of input and every pair of formats.
InitConv == InitHolding("conv", FactoryInstances)

NextConv == \E t \in Threads : CallConvert(t) \/ ConvertRun(t) \/ ConvertTake(t)

ConvSpec == InitConv /\ [][NextConv]_vars

\* ------------------------------------------- CSV to JSON, record by record
\* The text of a CSV input as encoding/csv reads it, line by line: a line is
\* a record of cells, a blank line (the reader skips it), or a line with a
\* bare quote inside an unquoted field (the reader cannot parse it).
CellValues == {"a", "b"}
BlankLine == <<>>
BadLine == <<"a\"b">>
CsvLines ==
    {BlankLine, BadLine} \cup UNION {[1..n -> CellValues] : n \in 1..MaxCells}
CsvTexts == UNION {[1..n -> CsvLines] : n \in 0..MaxLines}

ErrBareQuote == "failed to read CSV: bare \" in non-quoted field"
ErrFieldCount == "failed to read CSV: wrong number of fields"

\* csv.NewReader(input).ReadAll(): the non-blank lines in order. The reader
\* is used as NewReader returns it, FieldsPerRecord = 0, so the first record
\* sets the number of fields every later record must have; the first line it
\* cannot accept ends the read with an error and no records.
ReadAll(text) ==
    LET recs == SelectSeq(text, LAMBDA l : l # BlankLine)
        Rejected(i) == recs[i] = BadLine \/ Len(recs[i]) # Len(recs[1])
        bad == {i \in 1..Len(recs) : Rejected(i)}
        first == CHOOSE i \in bad : \A j \in bad : i <= j
    IN  IF bad = {} THEN [records |-> recs, err |-> NoErr]
        ELSE [records |-> <<>>,
              err |-> IF recs[first] = BadLine THEN ErrBareQuote
                      ELSE ErrFieldCount]

\* A Go slice of rows: var jsonData []map[string]string is nil until the
\* first append.
NilSlice == [isNil |-> TRUE, elems |-> <<>>]
SliceAppend(sl, x) == [isNil |-> FALSE, elems |-> Append(sl.elems, x)]

\* A JSON document: json.MarshalIndent renders a nil slice as null and any
\* other slice as an array of its elements, in order.
JSONNull == [kind |-> "null", items |-> <<>>]
JSONArray(rows) == [kind |-> "array", items |-> rows]
MarshalIndent(sl) == IF sl.isNil THEN JSONNull ELSE JSONArray(sl.elems)

\* row := make(map[string]string); row[headers[i]] = value for each cell i
\* of the record with i < len(headers): a later cell under a repeated header
\* name replaces the earlier one.
Row(headers, record) ==
    LET n == IF Len(record) < Len(headers) THEN Len(record) ELSE Len(headers)
        Last(h) == CHOOSE i \in 1..n :
                      headers[i] = h /\ \A j \in 1..n : headers[j] = h => j <= i
    IN  [h \in {headers[i] : i \in 1..n} |-> record[Last(h)]]

\* for _, record := range records[1:] { ...; jsonData = append(jsonData, row) }
RECURSIVE AppendRows(_, _, _)
AppendRows(jsonData, headers, rest) ==
    IF rest = <<>> THEN jsonData
    ELSE AppendRows(SliceAppend(jsonData, Row(headers, Head(rest))),
                    headers, Tail(rest))

\* The result for an input without records: the literal bytes "[]".
EmptyInputRejected == ConversionResult(NoData, "nil", "empty CSV input")
EmptyArrayResult == ConversionResult(JSONArray(<<>>), FormatJSON, NoErr)

\* CSVToJSONConverter.Convert on the text of its input.
CSVToJSON(text, from, to) ==
    IF from # FormatCSV \/ to # FormatJSON
    THEN ConversionResult(NoData, "nil", ErrUnsupportedConversion)
    ELSE LET r == ReadAll(text) IN
         IF r.err # NoErr THEN ConversionResult(NoData, "nil", r.err)
         ELSE IF Len(r.records) = 0 THEN EmptyArrayResult
         ELSE ConversionResult(
                  MarshalIndent(AppendRows(NilSlice, Head(r.records),
                                           Tail(r.records))),
                  FormatJSON, NoErr)

\* The client calls Convert(strings.NewReader(csvData), FormatCSV, FormatJSON)
\* on its CSV-to-JSON converter.
CallConvertCSV(t) ==
    /\ pc[t] = "idle" /\ mode[t] = "csv"
    /\ \E text \in CsvTexts : reader' = [reader EXCEPT ![t] = NewReader(text)]
    /\ argFrom' = [argFrom EXCEPT ![t] = FormatCSV]
    /\ argTo' = [argTo EXCEPT ![t] = FormatJSON]
    /\ pc' = [pc EXCEPT ![t] = "c_run"]
    /\ UNCHANGED <<regVars, poolVars, mode, key, conv, err, octx, creator,
                   visited, held, calls, execVars, builderVars, runVars>>

ConvertCSVRun(t) ==
    /\ pc[t] = "c_run"
    /\ cres' = [cres EXCEPT ![t] =
                   CSVToJSON(reader[t].data, argFrom[t], argTo[t])]
    /\ reader' = [reader EXCEPT ![t].consumed = TRUE]
    /\ pc' = [pc EXCEPT ![t] = "converted"]
    /\ UNCHANGED <<regVars, poolVars, mode, key, conv, err, octx, creator,
                   visited, held, calls, pipeline, res, idx, cur, fs, writes, reads,
                   builderVars, runVars, argFrom, argTo>>

InitCsv ==
    InitHolding("csv", {NewInstance(CSVToJSONConverter, "csv-json", "direct")})

NextCsv ==
    \E t \in Threads : CallConvertCSV(t) \/ ConvertCSVRun(t) \/ ConvertTake(t)

CsvSpec == InitCsv /\ [][NextCsv]_vars

\* ---------------------------------------------------------------- builder
\* The arguments the client gives the builder; "" is the empty path.
EmptyPath == <<>>
BuilderInputs == {EmptyPath, GoodInput}
BuilderOutputs == {EmptyPath, OutputPath}
BuilderSteps == {[From |-> FormatCSV, To |-> FormatJSON],
                 [From |-> FormatJSON, To |-> FormatXML]}

\* The builder's client is between two calls on the builder.
Configuring(t) == pc[t] = "idle" /\ mode[t] = "build"
otherThanBuilder == <<regVars, poolVars, pc, mode, key, conv, err, octx, creator,
                      visited, held, calls, execVars, convVars, runVars>>

\* WithInputPath, lines 31-34.
WithInputPath(t) ==
    /\ Configuring(t)
    /\ \E path \in BuilderInputs : bpipeline' = [bpipeline EXCEPT !.InputPath = path]
    /\ UNCHANGED <<built, snapshot, added, otherThanBuilder>>

\* WithOutputPath, lines 36-39.
WithOutputPath(t) ==
    /\ Configuring(t)
    /\ \E path \in BuilderOutputs : bpipeline' = [bpipeline EXCEPT !.OutputPath = path]
    /\ UNCHANGED <<built, snapshot, added, otherThanBuilder>>

\* The header lists and the ConversionOptions values a client passes.
HeaderLists == {<<>>, <<"name">>}
OptionValues ==
    [Indent : BOOLEAN, PrettyPrint : BOOLEAN, Headers : HeaderLists,
     Save : BOOLEAN]

\* b.pipeline.Options = options (line 42): all four options are replaced.
SetOptions(p, o) ==
    [p EXCEPT !.Indent = o.Indent, !.PrettyPrint = o.PrettyPrint,
              !.Headers = o.Headers, !.Save = o.Save]
\* b.pipeline.Options.Indent = true (line 47)
SetIndent(p) == [p EXCEPT !.Indent = TRUE]
\* b.pipeline.Options.PrettyPrint = true (line 52)
SetPrettyPrint(p) == [p EXCEPT !.PrettyPrint = TRUE]
\* b.pipeline.Options.Headers = headers (line 57)
SetHeaders(p, h) == [p EXCEPT !.Headers = h]
\* b.pipeline.Options.SaveIntermediarySteps = true (line 62)
SetSaveIntermediarySteps(p) == [p EXCEPT !.Save = TRUE]

\* WithOptions, lines 41-44: the options are replaced as a whole, by one of
\* the values O the client passes.
WithOptionsFrom(t, O) ==
    /\ Configuring(t)
    /\ \E o \in O : bpipeline' = SetOptions(bpipeline, o)
    /\ UNCHANGED <<built, snapshot, added, otherThanBuilder>>

\* The client passes options that differ in SaveIntermediarySteps only.
WithOptions(t) ==
    WithOptionsFrom(t, {[NoOptions EXCEPT !.Save = save] : save \in BOOLEAN})

\* The client passes any options.
WithAnyOptions(t) == WithOptionsFrom(t, OptionValues)

\* WithIndent, lines 46-49.
WithIndent(t) ==
    /\ Configuring(t)
    /\ bpipeline' = SetIndent(bpipeline)
    /\ UNCHANGED <<built, snapshot, added, otherThanBuilder>>

\* WithPrettyPrint, lines 51-54.
WithPrettyPrint(t) ==
    /\ Configuring(t)
    /\ bpipeline' = SetPrettyPrint(bpipeline)
    /\ UNCHANGED <<built, snapshot, added, otherThanBuilder>>

\* WithHeaders, lines 56-59.
WithHeaders(t) ==
    /\ Configuring(t)
    /\ \E h \in HeaderLists : bpipeline' = SetHeaders(bpipeline, h)
    /\ UNCHANGED <<built, snapshot, added, otherThanBuilder>>

\* WithSaveIntermediarySteps, lines 61-64.
WithSaveIntermediarySteps(t) ==
    /\ Configuring(t)
    /\ bpipeline' = SetSaveIntermediarySteps(bpipeline)
    /\ UNCHANGED <<built, snapshot, added, otherThanBuilder>>

\* One call of an Add* method, as the client wrote it: the method and, for
\* AddConversionStep, its two arguments.
AddCall(method, from, to) == [method |-> method, From |-> from, To |-> to]

\* Mutant of AppendStep: the new step goes to the front.
PrependStep(p, from, to) ==
    [p EXCEPT !.Steps = <<[From |-> from, To |-> to]>> \o @]

\* AddConversionStep, lines 67-72: append(b.pipeline.Steps, step).
AppendStep(p, from, to) ==
    [p EXCEPT !.Steps = Append(@, [From |-> from, To |-> to])]

\* AddConversionStep, lines 66-74, called as `method`.
AddConversionStepAs(t, method, from, to) ==
    /\ Configuring(t)
    /\ Len(bpipeline.Steps) < MaxBuildSteps
    /\ bpipeline' = AppendStep(bpipeline, from, to)
    /\ added' = Append(added, AddCall(method,
                    IF method = "AddConversionStep" THEN from ELSE "nil",
                    IF method = "AddConversionStep" THEN to ELSE "nil"))
    /\ UNCHANGED <<built, snapshot, otherThanBuilder>>

\* AddConversionStep(from, to) called by the client.
AddConversionStep(t) ==
    \E st \in BuilderSteps : AddConversionStepAs(t, "AddConversionStep", st.From, st.To)

\* AddCSVToJSON, lines 76-78.
AddCSVToJSON(t) == AddConversionStepAs(t, "AddCSVToJSON", FormatCSV, FormatJSON)

\* AddJSONToXML, lines 80-82.
AddJSONToXML(t) == AddConversionStepAs(t, "AddJSONToXML", FormatJSON, FormatXML)

\* AddXMLToYAML, lines 84-86.
AddXMLToYAML(t) == AddConversionStepAs(t, "AddXMLToYAML", FormatXML, FormatYAML)

\* Mutant of BuildError: the output path is validated before the input path.
BuildErrorOutputFirst(p) ==
    IF Len(p.Steps) = 0 THEN "pipeline must have at least one conversion step"
    ELSE IF p.OutputPath = EmptyPath THEN "output path is required"
    ELSE IF p.InputPath = EmptyPath THEN "input path is required"
    ELSE NoErr

\* Mutant of BuildError: the output path is not validated.
BuildErrorNoOutputCheck(p) ==
    IF Len(p.Steps) = 0 THEN "pipeline must have at least one conversion step"
    ELSE IF p.InputPath = EmptyPath THEN "input path is required"
    ELSE NoErr

\* Build, lines 89-99: the three validations, in order.
BuildError(p) ==
    IF Len(p.Steps) = 0 THEN "pipeline must have at least one conversion step"
    ELSE IF p.InputPath = EmptyPath THEN "input path is required"
    ELSE IF p.OutputPath = EmptyPath THEN "output path is required"
    ELSE NoErr

\* Build, line 101: the pointer returned is the builder's own b.pipeline.
BuiltPointer == "b.pipeline"
\* The object a pipeline pointer points to.
Deref(ref) == IF ref = "b.pipeline" THEN bpipeline ELSE NoPipeline

\* Build, lines 88-102.
Build(t) ==
    /\ Configuring(t)
    /\ IF BuildError(bpipeline) # NoErr
       THEN /\ built' = [pipeline |-> "nil", err |-> BuildError(bpipeline)]
            /\ snapshot' = snapshot
       ELSE /\ built' = [pipeline |-> BuiltPointer, err |-> NoErr]
            /\ snapshot' = [ref |-> BuiltPointer, value |-> Deref(BuiltPointer)]
    /\ pc' = [pc EXCEPT ![t] = "built"]
    /\ UNCHANGED <<bpipeline, added, regVars, poolVars, mode, key, conv, err, octx,
                   creator, visited, held, calls, execVars, convVars, runVars>>

\* The client has looked at what Build returned (client/main.go:67-80).
BuildTake(t) ==
    /\ pc[t] = "built" /\ mode[t] = "build"
    /\ pc' = [pc EXCEPT ![t] = "idle"]
    /\ UNCHANGED <<builderVars, regVars, poolVars, mode, key, conv, err, octx,
                   creator, visited, held, calls, execVars, convVars, runVars>>

\* Goroutine 1 configures a fresh builder and calls Build, in any order and
\* any number of times; the other goroutines stay idle.
InitBuild ==
    /\ InitCommon
    /\ mode = [t \in Threads |-> IF t = 1 THEN "build" ELSE "api"]
    /\ calls = 0

BuilderStep(t) ==
    \/ WithInputPath(t) \/ WithOutputPath(t) \/ WithOptions(t)
    \/ WithSaveIntermediarySteps(t) \/ AddConversionStep(t)
    \/ AddCSVToJSON(t) \/ AddJSONToXML(t) \/ AddXMLToYAML(t)
    \/ Build(t) \/ BuildTake(t)

NextBuild == \E t \in Threads : BuilderStep(t)

BuildSpec == InitBuild /\ [][NextBuild]_vars

\* Goroutine 1 configures a fresh builder with every setter, in any order
\* and any number of times.
OptionStep(t) ==
    \/ WithInputPath(t) \/ WithOutputPath(t) \/ AddConversionStep(t)
    \/ WithAnyOptions(t) \/ WithIndent(t) \/ WithPrettyPrint(t)
    \/ WithHeaders(t) \/ WithSaveIntermediarySteps(t)

NextOption == \E t \in Threads : OptionStep(t)

OptionSpec == InitBuild /\ [][NextOption]_vars

\* -------------------------------------- a client that builds, then executes
\* Goroutine 1 configures a builder, calls Build() and hands the pipeline it
\* got to an executor (README.md:156-169).
InitClient ==
    /\ InitCommon
    /\ mode = [t \in Threads |-> IF t = 1 THEN "build" ELSE "api"]
    /\ calls = MaxRuns

\* executor := factory.NewPipelineExecutor(pool), after a Build() without error.
NewPipelineExecutor(t) ==
    /\ pc[t] = "built" /\ mode[t] = "build"
    /\ built.err = NoErr
    /\ mode' = [mode EXCEPT ![t] = "exec"]
    /\ pc' = [pc EXCEPT ![t] = "idle"]
    /\ UNCHANGED <<builderVars, regVars, poolVars, key, conv, err, octx,
                   creator, visited, held, calls, execVars, convVars, runVars>>

\* executor.Execute(pipeline) on the pipeline Build() returned.
ExecuteBuilt(t) == ExecBeginWith(t, {Deref(built.pipeline)})

BuildAndRunStep(t) ==
    \/ WithInputPath(t) \/ WithOutputPath(t) \/ WithSaveIntermediarySteps(t)
    \/ AddConversionStep(t) \/ AddCSVToJSON(t) \/ AddJSONToXML(t) \/ AddXMLToYAML(t)
    \/ Build(t) \/ BuildTake(t) \/ NewPipelineExecutor(t)
    \/ ExecuteBuilt(t) \/ ExecAcquire(t) \/ ExecGot(t) \/ ExecAppend(t)
    \/ ExecFinalize(t) \/ ExecReturn(t)

NextClient ==
    \E t \in Threads : GetStep(t) \/ PutStep(t) \/ CreateStep(t) \/ BuildAndRunStep(t)

ClientSpec == InitClient /\ [][NextClient]_vars

\* ------------------------------------------------------ lab1: the runner
\* The texts of the lines of an input, as sequences of characters, and the
\* queries.
MaxInputLines == 3
LineTexts == {<<>>, <<"a">>, <<"a", "b">>}
Queries == {<<"a">>, <<"b">>}
RunnerInputs == UNION {[1..n -> LineTexts] : n \in 0..MaxInputLines}
ErrRead == "read error"
ErrWrite == "write error"

\* LiteralSearch.Search, search.go:14-16: strings.Contains(text, query).
Search(text, q) ==
    \E i \in 0..(Len(text) - Len(q)) : SubSeq(text, i + 1, i + Len(q)) = q

\* Run, lines 30-33: SearchResult{LineNumber: lineNumber, Line: line}.
SearchResult(n, line) == [LineNumber |-> n, Line |-> line]

\* Mutant of NextLineNumber: only the matching lines are counted.
NextLineNumberOnMatch(n, matched) == IF matched THEN n + 1 ELSE n

\* Run, line 35: lineNumber++ at the end of every iteration.
NextLineNumber(n, matched) == n + 1

\* Run, lines 22-25: the scanner, nil results, lineNumber := 1.
CallRun ==
    /\ rpc = "idle"
    /\ \E lines \in RunnerInputs, e \in {NoErr, ErrRead}, q \in Queries :
          /\ scanner' = NewScanner(lines, e)
          /\ runQuery' = q
    /\ results' = <<>>
    /\ lineNumber' = 1
    /\ rpc' = "scan"
    /\ UNCHANGED <<written, runErr, regVars, poolVars, pc, mode, key, conv, err, octx,
                   creator, visited, held, calls, execVars, builderVars, convVars>>

\* Run, lines 27-36: scanner.Scan() gave a line.
ScanLine ==
    /\ rpc = "scan"
    /\ scanner.pos < Len(scanner.input)
    /\ LET line == scanner.input[scanner.pos + 1]
           matched == Search(line, runQuery)
       IN /\ results' = IF matched
                        THEN Append(results, SearchResult(lineNumber, line))
                        ELSE results
          /\ lineNumber' = NextLineNumber(lineNumber, matched)
    /\ scanner' = [scanner EXCEPT !.pos = @ + 1]
    /\ UNCHANGED <<rpc, runQuery, written, runErr, regVars, poolVars, pc, mode, key, conv,
                   err, octx, creator, visited, held, calls, execVars, builderVars,
                   convVars>>

\* Run, lines 27 and 38-42: scanner.Scan() gave false; scanner.Err() is
\* returned if set, else what r.writer.Write(results) returns.
RunFinish ==
    /\ rpc = "scan"
    /\ scanner.pos = Len(scanner.input)
    /\ IF scanner.err # NoErr
       THEN /\ runErr' = scanner.err
            /\ written' = written
       ELSE /\ written' = Append(written, results)
            /\ runErr' \in {NoErr, ErrWrite}
    /\ rpc' = "returned"
    /\ UNCHANGED <<scanner, runQuery, lineNumber, results, regVars, poolVars, pc, mode,
                   key, conv, err, octx, creator, visited, held, calls, execVars,
                   builderVars, convVars>>

InitRunner ==
    /\ InitCommon
    /\ mode = [t \in Threads |-> "api"]
    /\ calls = 0

NextRunner == CallRun \/ ScanLine \/ RunFinish

RunnerSpec == InitRunner /\ [][NextRunner]_vars

\* ------------------------------------------------------------------ claims
GetPcs == {"g_lock", "g_ensure", "g_sel1", "g_lock2", "g_check", "g_counted",
           "g_sel2"}
InGet(t) == pc[t] \in GetPcs \/ (pc[t] \in {"c_rlock", "c_lookup"} /\ octx[t] # "direct")
\* The goroutine is between the cap check and the counter increment.
InCountedSection(t) ==
    \/ pc[t] \in {"g_check", "g_counted"}
    \/ pc[t] \in {"c_rlock", "c_lookup"} /\ octx[t] = "counted"

\* C1: with maxSize >= 1, the number of instances counted as created for a
\* key never exceeds maxSize, and a goroutine between the cap check and the
\* counter increment of Get holds the pool mutex.
C1_CreatedNeverExceedsMax ==
    maxSize >= 1 =>
        /\ \A k \in DOMAIN created : created[k] <= maxSize
        /\ \A t \in Threads : InCountedSection(t) => mu = t

\* Two goroutines are inside Get for the same key whose count is at the cap.
C1_Witness ==
    /\ maxSize >= 1
    /\ \E t1, t2 \in Threads :
          /\ t1 # t2 /\ InGet(t1) /\ InGet(t2) /\ key[t1] = key[t2]
          /\ HasPool(key[t1]) /\ created[key[t1]] = maxSize
          /\ pc[t1] = "g_check"

\* C2: every Get(key) that returns without error returns a converter of
\* that key, and every idle instance in the cache of key k is a converter of
\* key k.
C2_GetReturnsOwnKey ==
    /\ \A t \in Threads :
          pc[t] \in {"got", "x_got"} /\ err[t] = NoErr => conv[t].key = key[t]
    /\ \A k \in DOMAIN pools :
          \A i \in 1..Len(pools[k]) : pools[k][i].key = k

\* C3: Put(c) for an instance c of key k appends c to the idle cache of key
\* k when that cache has room and otherwise discards c; the idle cache of
\* every other key is unchanged.
C3_PutReturnsToOwnCache ==
    [][\A t \in Threads :
          pc[t] = "p_range" /\ pc'[t] # "p_range" =>
             IF HasPool(conv[t].key) /\ Len(pools[conv[t].key]) < maxSize
             THEN pools' = [pools EXCEPT ![conv[t].key] = Append(@, conv[t])]
             ELSE pools' = pools]_vars

\* C4: the number of idle instances cached for a key never exceeds maxSize.
C4_IdleNeverExceedsMax ==
    \A k \in DOMAIN pools : Len(pools[k]) <= maxSize

\* A Put has found a full cache of a pool with maxSize >= 1.
C4_Witness ==
    /\ maxSize >= 1
    /\ \E t \in Threads, k \in DOMAIN pools :
          pc[t] = "p_range" /\ k \in visited[t] /\ Len(pools[k]) = maxSize

\* C5: when Get reaches the cap-reached path (idle cache empty at both
\* selects, created count equal to maxSize) for a registered key, it returns
\* a newly constructed converter of that key with no error and leaves the
\* created count unchanged.
C5_FallbackUncounted ==
    [][\A t \in Threads :
          /\ pc[t] = "c_lookup" /\ pc'[t] # "c_lookup" /\ octx[t] = "temp"
          /\ converterRegistry[key[t]] # NoCreator
          => /\ pc'[t] = GetReturn(t)
             /\ err'[t] = NoErr
             /\ conv'[t] = NewInstance(converterRegistry[key[t]], key[t], "temp")
             /\ created[key[t]] = maxSize
             /\ created' = created]_vars

\* A Get of a registered key has returned a temporary instance of a pool
\* with maxSize >= 1.
C5_Witness ==
    \E t \in Threads :
        /\ pc[t] = "got" /\ octx[t] = "temp" /\ maxSize >= 1
        /\ converterRegistry[key[t]] # NoCreator
        /\ conv[t].origin = "temp"

\* C6: an instance that Get built on the cap-reached path is never among the
\* idle instances of the pool and is never handed out by a later Get.
C6_TemporaryNeverRetained ==
    /\ \A k \in DOMAIN pools :
          \A i \in 1..Len(pools[k]) : pools[k][i].origin # "temp"
    /\ \A t \in Threads :
          pc[t] = "got" /\ octx[t] # "temp" => conv[t].origin # "temp"

\* Get, Put, RegisterConverter or CreateConverter has returned to its caller.
Returned(t) == pc[t] \in {"idle", "got", "made", "x_got", "x_append"}
LocksReleased(t) == mu # t /\ rwWriter # t /\ t \notin rwReaders

\* C7: under fair scheduling every call of Get, Put, RegisterConverter and
\* CreateConverter returns (the clients issue finitely many calls, so every
\* goroutine ends up idle for good), and a goroutine whose call has returned
\* holds neither the pool mutex nor the registry lock.
C7_EveryCallReturns ==
    /\ [](\A t \in Threads : Returned(t) => LocksReleased(t))
    /\ <>[](\A t \in Threads : pc[t] = "idle")

\* A Get failed on the error path of the counted branch while another
\* goroutine waits for the pool mutex.
C7_Witness ==
    \E t1, t2 \in Threads :
        /\ pc[t1] = "got" /\ err[t1] # NoErr /\ octx[t1] = "nil"
        /\ pc[t2] \in {"g_lock", "g_lock2", "p_lock"}

\* Every runnable goroutine eventually takes its next step.
Fairness == \A t \in Threads : WF_vars(PoolStep(t) \/ ClientTake(t))
InitFair == InitCommon /\ mode = [t \in Threads |-> "api"] /\ calls = MaxFairCalls
FairSpec == InitFair /\ [][Next]_vars /\ Fairness

\* The number of steps the executor has tried to acquire a converter for.
Attempted(t) ==
    IF idx[t] > Len(pipeline[t].Steps) THEN Len(pipeline[t].Steps) ELSE idx[t]

\* C8: the executor holds a converter only from the return of Get to the
\* return of the Put that follows Convert: it holds none while it records
\* the result, checks the error, persists, acquires the next converter or
\* returns, also when the conversion failed.
C8_ConverterReturnedAtOnce ==
    \A t \in Threads :
        mode[t] = "exec" /\ conv[t] # NoConv =>
            pc[t] \in {"g_counted", "x_got", "p_lock", "p_range"}

\* The conversion failed and the converter is back before the result is
\* recorded.
C8_Witness ==
    \E t \in Threads :
        /\ mode[t] = "exec" /\ pc[t] = "x_append"
        /\ cres[t].Error # NoErr /\ conv[t] = NoConv

\* C9: when the conversion of step k fails, Execute is at its return with
\* success=false, results has exactly k entries of which only the k-th
\* carries an error, and no later step is acquired or converted.
C9_StopsAtFirstFailure ==
    \A t \in Threads :
        mode[t] = "exec" =>
            \A j \in 1..Len(res[t].Results) :
                res[t].Results[j].Error # NoErr =>
                    /\ pc[t] = "x_done"
                    /\ ~res[t].Success
                    /\ j = Len(res[t].Results)
                    /\ idx[t] = j
                    /\ res[t].Error.msg = "step failed"
                    /\ res[t].Error.step = j

\* The second step of a pipeline failed after the first succeeded.
C9_Witness ==
    \E t \in Threads :
        /\ mode[t] = "exec" /\ pc[t] = "x_done"
        /\ Len(res[t].Results) = 2
        /\ res[t].Results[1].Error = NoErr
        /\ res[t].Results[2].Error # NoErr

\* C10 as claimed: however the run ends, results holds one entry per
\* attempted step, a step being attempted once its converter is requested.
C10_OneEntryPerAttemptedStep ==
    \A t \in Threads :
        mode[t] = "exec" /\ pc[t] = "x_done" =>
            Len(res[t].Results) = Attempted(t)

\* C10 amended: however the run ends, results holds one entry per step whose
\* Convert ran, in step order; the step whose converter acquisition failed
\* has no entry.
C10_OneEntryPerConvertedStep ==
    \A t \in Threads :
        mode[t] = "exec" /\ pc[t] = "x_done" =>
            /\ Len(res[t].Results) =
                  IF res[t].Error.msg = ErrGetConverter
                  THEN Attempted(t) - 1 ELSE Attempted(t)
            /\ \A j \in 1..Len(res[t].Results) :
                  res[t].Results[j].Error = NoErr =>
                     /\ res[t].Results[j].Format = pipeline[t].Steps[j].To
                     /\ Len(res[t].Results[j].Data.trail) = j

\* The converter of the second step could not be acquired: one entry.
C10_Witness ==
    \E t \in Threads :
        /\ mode[t] = "exec" /\ pc[t] = "x_done"
        /\ res[t].Error.msg = ErrGetConverter
        /\ idx[t] = 2 /\ Len(res[t].Results) = 1


\* The calls of os.WriteFile the run has made from the given call site.
WritesAt(t, site) == SelectSeq(writes[t], LAMBDA w : w.site = site)
AllWritesOk(t) == \A i \in 1..Len(writes[t]) : writes[t][i].ok
\* Execute is at one of its return statements.
Ended(t) == mode[t] = "exec" /\ pc[t] = "x_done"

\* C11: when the loop of Execute has gone through every step with no
\* conversion error and no write has failed, the run ends with success=true
\* and no error, results has one error-free entry per step, in step order,
\* and the file at outputPath holds the data of the last entry.
C11_SuccessfulRun ==
    \A t \in Threads :
        /\ Ended(t) /\ Len(pipeline[t].Steps) > 0
        /\ idx[t] > Len(pipeline[t].Steps)
        /\ AllWritesOk(t)
        => LET n == Len(pipeline[t].Steps) IN
           /\ res[t].Success
           /\ res[t].Error = NoPipelineError
           /\ Len(res[t].Results) = n
           /\ \A j \in 1..n :
                 /\ res[t].Results[j].Error = NoErr
                 /\ res[t].Results[j].Format = pipeline[t].Steps[j].To
                 /\ Len(res[t].Results[j].Data.trail) = j
           /\ pipeline[t].OutputPath \in DOMAIN fs
           /\ fs[pipeline[t].OutputPath] = res[t].Results[n].Data

\* A two-step run with side files has ended in success.
C11_Witness ==
    \E t \in Threads :
        /\ Ended(t) /\ res[t].Success /\ pipeline[t].Save
        /\ Len(res[t].Results) = 2
        /\ fs[pipeline[t].OutputPath] = res[t].Results[2].Data
        /\ fs[pipeline[t].OutputPath] # fs[pipeline[t].InputPath]

\* The failures C12 is about, by the message Execute gives them.
EarlyFailures == {"failed to read input file", ErrGetConverter, "step failed",
                  "failed to save intermediary step"}

\* C12 as claimed: when the run fails on the input read, a converter
\* acquisition, a conversion or a side-file write, no os.WriteFile of that
\* run has written the file at outputPath.
C12_OutputNeverWrittenOnFailure ==
    \A t \in Threads :
        Ended(t) /\ res[t].Error.msg \in EarlyFailures =>
            \A i \in 1..Len(writes[t]) :
                writes[t][i].ok => writes[t][i].path # pipeline[t].OutputPath

\* C12 amended: when the run fails on the input read, a converter
\* acquisition, a conversion or a side-file write, the final write (line 180)
\* is not attempted, and the only writes that name outputPath are side-file
\* writes of steps that converted; the final write is attempted only after
\* every step has an error-free result.
C12_FinalWriteOnlyAfterAllSteps ==
    \A t \in Threads :
        mode[t] = "exec" =>
            /\ Ended(t) /\ res[t].Error.msg \in EarlyFailures =>
                  /\ WritesAt(t, "output") = <<>>
                  /\ \A i \in 1..Len(writes[t]) :
                        writes[t][i].path = pipeline[t].OutputPath =>
                           /\ pipeline[t].Save
                           /\ i <= Len(res[t].Results)
                           /\ res[t].Results[i].Error = NoErr
                           /\ writes[t][i].path =
                                 <<"steps", i, pipeline[t].Steps[i].From,
                                   pipeline[t].Steps[i].To, pipeline[t].Steps[i].To>>
            /\ WritesAt(t, "output") # <<>> =>
                  /\ Len(WritesAt(t, "output")) = 1
                  /\ writes[t][Len(writes[t])].site = "output"
                  /\ Len(res[t].Results) = Len(pipeline[t].Steps)
                  /\ \A j \in 1..Len(res[t].Results) :
                        res[t].Results[j].Error = NoErr

\* The second step of a run with side files failed; the first step's side
\* file is the only file written.
C12_Witness ==
    \E t \in Threads :
        /\ Ended(t) /\ res[t].Error.msg = "step failed"
        /\ pipeline[t].Save /\ Len(res[t].Results) = 2
        /\ Len(writes[t]) = 1
        /\ WritesAt(t, "output") = <<>>


\* The executor is inside the loop body or at its head.
InLoop(t) == mode[t] = "exec" /\ pc[t] \notin {"idle", "x_done"}
ErrorFree(rs) == {j \in 1..Len(rs) : rs[j].Error = NoErr}

\* C13: with saveIntermediarySteps set, while the executor is at step i+1
\* (acquiring its converter included) the side files of steps 1..i have been
\* written, the j-th named steps/step_<j>_<from>_to_<to>.<to> and holding the
\* output of step j; a side-file write that fails is the last thing the run
\* does (Failed, no further step); a step whose conversion failed has no
\* side file.
C13_SideFilesBeforeNextStep ==
    \A t \in Threads :
        mode[t] = "exec" /\ pc[t] # "idle" /\ pipeline[t].Save =>
            LET side == WritesAt(t, "step")
                rs == res[t].Results
                steps == pipeline[t].Steps IN
            /\ Len(side) = Cardinality(ErrorFree(rs))
            /\ InLoop(t) => Len(side) = idx[t] - 1 /\ AllWritesOk(t)
            /\ \A j \in 1..Len(side) :
                  /\ side[j].path =
                        <<"steps", j, steps[j].From, steps[j].To, steps[j].To>>
                  /\ j \in ErrorFree(rs)
                  /\ side[j].ok /\ WritesAt(t, "output") = <<>> =>
                        /\ side[j].path \in DOMAIN fs
                        /\ fs[side[j].path] = rs[j].Data
                  /\ ~side[j].ok =>
                        /\ j = Len(side) /\ j = Len(rs) /\ j = idx[t]
                        /\ pc[t] = "x_done" /\ ~res[t].Success
                        /\ WritesAt(t, "output") = <<>>

\* The converter of step 2 is being acquired and the side file of step 1 is
\* on disk.
C13_Witness ==
    \E t \in Threads :
        /\ InLoop(t) /\ pc[t] = "g_lock" /\ idx[t] = 2 /\ pipeline[t].Save
        /\ Len(WritesAt(t, "step")) = 1
        /\ WritesAt(t, "step")[1].path \in DOMAIN fs


\* C14: Build() returns an error exactly when the step list is empty or
\* inputPath is empty or outputPath is empty, and otherwise a pipeline and no
\* error; a failed Build returns no pipeline, touches no file and leaves the
\* builder's steps, paths and options as they were.
C14_BuildValidates ==
    [][\A t \in Threads :
          mode[t] = "build" /\ pc[t] = "idle" /\ pc'[t] = "built" =>
             LET bad == \/ bpipeline.Steps = <<>>
                        \/ bpipeline.InputPath = <<>>
                        \/ bpipeline.OutputPath = <<>> IN
             /\ built'.err # NoErr <=> bad
             /\ built'.pipeline = "nil" <=> bad
             /\ fs' = fs /\ writes' = writes
             /\ bad => bpipeline' = bpipeline]_vars

\* Build has failed on a builder that lacks only the output path.
C14_Witness ==
    \E t \in Threads :
        /\ mode[t] = "build" /\ pc[t] = "built"
        /\ built.err # NoErr /\ built.pipeline = "nil"
        /\ bpipeline.Steps # <<>> /\ bpipeline.InputPath # <<>>
        /\ bpipeline.OutputPath = <<>>

\* C15: the pipeline a successful Build() returned keeps the steps, options
\* and paths it had when it was returned, whatever is called on the builder
\* afterwards.
C15_BuiltPipelineImmutable ==
    snapshot.ref # "nil" => Deref(snapshot.ref) = snapshot.value


\* CreateConverter returns: the step from the lookup to the caller.
LookupReturns(t) == pc[t] = "c_lookup" /\ pc'[t] # "c_lookup"

\* C16: CreateConverter(key) for a key no RegisterConverter ever stored a
\* creator for returns the "unsupported converter type" error and no
\* converter; for a registered key it returns, with no error, one instance
\* built by the creator the registry holds for that key; either way the
\* registry, the pool's caches and its counters are as before.
C16_CreateConverter ==
    [][\A t \in Threads :
          LookupReturns(t) =>
             /\ converterRegistry' = converterRegistry
             /\ pools' = pools /\ created' = created
             /\ IF registered[key[t]] = {}
                THEN err'[t] = ErrUnsupportedType /\ conv'[t] = NoConv
                ELSE /\ err'[t] = NoErr
                     /\ conv'[t] = [ctor |-> converterRegistry[key[t]],
                                    key |-> key[t], origin |-> octx[t]]
                     /\ conv'[t].ctor # NoCreator]_vars

\* One CreateConverter has failed on an absent key and another has built
\* an instance.
C16_Witness ==
    \E t1, t2 \in Threads :
        /\ pc[t1] = "made" /\ err[t1] = ErrUnsupportedType /\ conv[t1] = NoConv
        /\ pc[t2] = "made" /\ err[t2] = NoErr /\ conv[t2] # NoConv

\* C17: the write of RegisterConverter(key, c) sets the registry's entry of
\* key to c, whether or not key had one, and leaves every other entry as it
\* was; nothing else changes the registry; CreateConverter(key) builds with
\* the entry it finds, which is therefore the most recently registered
\* creator of key.
C17_RegisterOverwrites ==
    [][/\ \A t \in Threads :
             pc[t] = "r_write" /\ pc'[t] # "r_write" =>
                /\ converterRegistry'[key[t]] = creator[t]
                /\ \A k \in AllKeys \ {key[t]} :
                      converterRegistry'[k] = converterRegistry[k]
       /\ converterRegistry' # converterRegistry =>
             \E t \in Threads : pc[t] = "r_write" /\ pc'[t] = "idle"
       /\ \A t \in Threads :
             LookupReturns(t) /\ err'[t] = NoErr =>
                conv'[t].ctor = converterRegistry[key[t]]]_vars

\* A key registered by init() has been overwritten and CreateConverter has
\* built an instance with the new creator.
C17_Witness ==
    \E t \in Threads :
        /\ pc[t] = "made" /\ key[t] = "csv-json" /\ err[t] = NoErr
        /\ conv[t].ctor # InitRegistry["csv-json"]
        /\ conv[t].ctor = converterRegistry["csv-json"]
        /\ Cardinality(registered["csv-json"]) = 3

\* C18: a goroutine at the registry write holds the write lock and no other
\* goroutine is at the write or at a lookup; a goroutine at the lookup holds
\* a read lock; and a CreateConverter that ran while RegisterConverter calls
\* for its key were under way has either failed as not registered or built
\* its instance with a creator that was registered for that key.
C18_RegistryAccessSafe ==
    \A t \in Threads :
        /\ pc[t] = "r_write" =>
              /\ rwWriter = t /\ rwReaders = {}
              /\ \A u \in Threads \ {t} : pc[u] \notin {"r_write", "c_lookup"}
        /\ pc[t] = "c_lookup" => t \in rwReaders /\ rwWriter = 0
        /\ pc[t] = "made" =>
              IF err[t] = NoErr
              THEN conv[t].ctor \in registered[key[t]]
              ELSE err[t] = ErrUnsupportedType /\ conv[t] = NoConv

\* A lookup of a key is under way while a RegisterConverter for the same
\* key waits for the write lock.
C18_Witness ==
    \E t1, t2 \in Threads :
        /\ pc[t1] = "c_lookup" /\ pc[t2] = "r_lock" /\ key[t1] = key[t2]
        /\ registered[key[t1]] # {}


\* The pair each converter is for, as the claims name the converters.
DeclaredPair(c) ==
    CASE c.ctor = "CSVToJSON" -> <<"csv", "json">>
      [] c.ctor = "JSONToXML" -> <<"json", "xml">>
      [] c.ctor = "XMLToYAML" -> <<"xml", "yaml">>
      [] c.ctor = "JSONToCSV" -> <<"json", "csv">>
\* Convert has returned to the client.
Converted(t) == mode[t] = "conv" /\ pc[t] = "converted"

\* C19: for every converter and every (from, to) other than the converter's
\* own pair, Convert returns the "unsupported conversion" error and no data,
\* whatever the input is, and has not read the input.
C19_MismatchRejected ==
    \A t \in Threads :
        Converted(t) /\ <<argFrom[t], argTo[t]>> # DeclaredPair(held[t]) =>
            /\ cres[t].Error = ErrUnsupportedConversion
            /\ cres[t].Data = NoData
            /\ cres[t].Format = "nil"
            /\ ~reader[t].consumed

\* A JSON -> CSV converter was asked for CSV -> JSON on a well-formed CSV
\* input and has returned.
C19_Witness ==
    \E t \in Threads :
        /\ Converted(t) /\ held[t].ctor = JSONToCSVConverter
        /\ argFrom[t] = FormatCSV /\ argTo[t] = FormatJSON
        /\ reader[t].data = FileData(FormatCSV, TRUE)

\* Convert did not answer "unsupported conversion".
Accepted(t) == cres[t].Error # ErrUnsupportedConversion

\* C20 as claimed: Convert accepts (from, to) if and only if
\* SupportsFormat(from) and SupportsFormat(to) are both true.
C20_SupportsFormatExactPair ==
    \A t \in Threads :
        Converted(t) =>
            (Accepted(t) <=> /\ SupportsFormat(held[t], argFrom[t])
                             /\ SupportsFormat(held[t], argTo[t]))

\* C20 amended: SupportsFormat(f) is true exactly when f is one of the two
\* formats of the pair the converter accepts, so Convert accepts (from, to)
\* only if SupportsFormat(from) and SupportsFormat(to) are both true, and
\* when both are true Convert accepts exactly the requests whose from is the
\* pair's source and whose to is the pair's target.
C20_SupportsFormatOfPair ==
    \A t \in Threads :
        Converted(t) =>
            LET c == held[t]
                both == SupportsFormat(c, argFrom[t]) /\ SupportsFormat(c, argTo[t]) IN
            /\ Accepted(t) => both
            /\ Accepted(t) <=> <<argFrom[t], argTo[t]>> = DeclaredPair(c)
            /\ \A f \in Formats :
                  SupportsFormat(c, f) <=>
                     f = DeclaredPair(c)[1] \/ f = DeclaredPair(c)[2]

\* Both formats are supported and Convert refused: the pair is reversed.
C20_Witness ==
    \E t \in Threads :
        /\ Converted(t) /\ ~Accepted(t)
        /\ SupportsFormat(held[t], argFrom[t]) /\ SupportsFormat(held[t], argTo[t])
        /\ argFrom[t] # argTo[t]

\* The non-blank lines of the text the goroutine handed to Convert.
GivenRecords(t) == SelectSeq(reader[t].data, LAMBDA l : l # BlankLine)
ConvertedCSV(t) == pc[t] = "converted" /\ mode[t] = "csv"

\* C21: CSV to JSON on an input with zero records (empty, or blank lines
\* only) returns the empty JSON array "[]" with format json and no error.
C21_NoRecordsGivesEmptyArray ==
    \A t \in Threads :
        (ConvertedCSV(t) /\ \A i \in DOMAIN reader[t].data :
                                reader[t].data[i] = BlankLine)
        => /\ cres[t].Error = NoErr
           /\ cres[t].Format = FormatJSON
           /\ cres[t].Data = [kind |-> "array", items |-> <<>>]
C21_Witness ==
    \E t \in Threads :
        /\ ConvertedCSV(t)
        /\ reader[t].data = <<BlankLine, BlankLine>>
        /\ cres[t].Error = NoErr

\* What parsing means for C22 and C23: no line with a bare quote.
Lexes(t) == \A i \in DOMAIN reader[t].data : reader[t].data[i] # BadLine

\* C22: an input that parses into r >= 1 records gives a JSON array of
\* exactly r-1 mappings in record order, mapping j taking header i to cell i
\* of data record j; a header-only input (r = 1) gives an empty array.
C22_RowsBecomeMappings ==
    \A t \in Threads :
        LET recs == GivenRecords(t) IN
        (/\ ConvertedCSV(t)
         /\ Lexes(t)
         /\ Len(recs) >= 1
         /\ \A j \in 1..Len(recs) : Len(recs[j]) = Len(recs[1]))
        => /\ cres[t].Error = NoErr
           /\ cres[t].Data.kind = "array"
           /\ Len(cres[t].Data.items) = Len(recs) - 1
           /\ \A j \in 1..(Len(recs) - 1) : \A i \in 1..Len(recs[1]) :
                 /\ recs[1][i] \in DOMAIN cres[t].Data.items[j]
                 /\ cres[t].Data.items[j][recs[1][i]] = recs[j + 1][i]

\* C23: a data record with fewer cells than the header row is accepted: the
\* conversion succeeds and the headers of the missing trailing cells are
\* absent from that record's mapping.
C23_ShortRecordAccepted ==
    \A t \in Threads :
        LET recs == GivenRecords(t) IN
        (/\ ConvertedCSV(t)
         /\ Lexes(t)
         /\ Len(recs) >= 2
         /\ \A j \in 2..Len(recs) : Len(recs[j]) <= Len(recs[1])
         /\ \E j \in 2..Len(recs) : Len(recs[j]) < Len(recs[1]))
        => /\ cres[t].Error = NoErr
           /\ cres[t].Data.kind = "array"
           /\ Len(cres[t].Data.items) = Len(recs) - 1
           /\ \A j \in 1..(Len(recs) - 1) :
                 DOMAIN cres[t].Data.items[j]
                    = {recs[1][i] : i \in 1..Len(recs[j + 1])}

\* C24: every ConversionResult is all or nothing: either the error is set
\* and the result carries no data and no format, or the error is absent and
\* the format is the target the caller asked for.
C24_ResultAllOrNothing ==
    \A t \in Threads :
        (mode[t] = "conv" /\ pc[t] = "converted")
        => \/ /\ cres[t].Error # NoErr
              /\ cres[t].Data = NoData
              /\ cres[t].Format = "nil"
           \/ /\ cres[t].Error = NoErr
              /\ cres[t].Format = argTo[t]
C24_Witness ==
    \E t \in Threads :
        /\ mode[t] = "conv" /\ pc[t] = "converted"
        /\ reader[t].consumed
        /\ ~reader[t].data.wellformed
        /\ cres[t].Error = ErrParse

\* C27: Get(key) for a key that has never been in the registry returns an
\* error and no converter, whatever Get and Put calls came before it.
C27_UnregisteredKeyFails ==
    \A t \in Threads :
        (pc[t] = "got" /\ registered[key[t]] = {})
        => /\ err[t] # NoErr
           /\ conv[t] = NoConv

\* The steps convert the data one after the other when each is given the
\* converter the factory makes for its key, as with a pool nobody else uses.
RECURSIVE ChainSucceeds(_, _)
ChainSucceeds(steps, data) ==
    \/ steps = <<>>
    \/ LET st == Head(steps)
           k == KeyOf(st.From, st.To)
           r == Convert(NewInstance(InitRegistry[k], k, "fresh"), data,
                        st.From, st.To)
       IN  /\ InitRegistry[k] # NoCreator
           /\ r.Error = NoErr
           /\ ChainSucceeds(Tail(steps), r.Data)
SucceedsAlone(p) ==
    /\ p.Steps # <<>>
    /\ p.InputPath \in DOMAIN InitFS
    /\ ChainSucceeds(p.Steps, InitFS[p.InputPath])

\* C26: a run's outcome depends on its own pipeline and input only: a
\* pipeline whose steps all succeed with a fresh pool succeeds in every later
\* run and every interleaving with other runs over the same pool (the file
\* system letting every write through).
C26_RunsDoNotInterfere ==
    \A t \in Threads :
        (/\ Ended(t)
         /\ SucceedsAlone(pipeline[t])
         /\ AllWritesOk(t)
         /\ res[t].Error.msg # "failed to create steps directory")
        => res[t].Success

\* The number of the step a failed run stopped at, counted from 1 by the
\* results recorded: a failed acquisition records nothing for its step.
StoppedAt(t) ==
    IF res[t].Error.msg = ErrGetConverter THEN Len(res[t].Results) + 1
    ELSE Len(res[t].Results)
StepFailures ==
    {ErrGetConverter, "step failed", "failed to save intermediary step"}

C29_DurationAlwaysSet ==
    \A t \in Threads : Ended(t) => res[t].Duration > 0

\* A call of one of the option setters; WithHeaders uses the Headers of its
\* argument, WithOptions all of it.
OptionCall(op, arg) == [op |-> op, arg |-> arg]
OptionCalls ==
    {OptionCall("WithOptions", o) : o \in OptionValues}
    \cup {OptionCall("WithHeaders", [NoOptions EXCEPT !.Headers = h]) :
             h \in HeaderLists}
    \cup {OptionCall(op, NoOptions) :
             op \in {"WithIndent", "WithPrettyPrint",
                     "WithSaveIntermediarySteps"}}
ApplyCall(c, p) ==
    CASE c.op = "WithOptions" -> SetOptions(p, c.arg)
      [] c.op = "WithIndent" -> SetIndent(p)
      [] c.op = "WithPrettyPrint" -> SetPrettyPrint(p)
      [] c.op = "WithHeaders" -> SetHeaders(p, c.arg.Headers)
      [] c.op = "WithSaveIntermediarySteps" -> SetSaveIntermediarySteps(p)
Commute(c1, c2, p) ==
    ApplyCall(c2, ApplyCall(c1, p)) = ApplyCall(c1, ApplyCall(c2, p))

\* C30: any two option-setting calls give the same options in either order.
C30_OptionCallsCommute ==
    \A c1, c2 \in OptionCalls : Commute(c1, c2, bpipeline)

\* C33: the error of a failed Build names the missing field, and with
\* several fields missing the first in the order steps, input path, output
\* path.
C33_BuildNamesFirstMissingField ==
    \A t \in Threads :
        (mode[t] = "build" /\ pc[t] = "built")
        => /\ bpipeline.Steps = <<>>
              => built.err = "pipeline must have at least one conversion step"
           /\ (bpipeline.Steps # <<>> /\ bpipeline.InputPath = <<>>)
              => built.err = "input path is required"
           /\ (/\ bpipeline.Steps # <<>> /\ bpipeline.InputPath # <<>>
               /\ bpipeline.OutputPath = <<>>)
              => built.err = "output path is required"
\* Build has failed on a builder that has steps and neither path.
C33_Witness ==
    \E t \in Threads :
        /\ mode[t] = "build" /\ pc[t] = "built"
        /\ bpipeline.Steps # <<>>
        /\ bpipeline.InputPath = <<>> /\ bpipeline.OutputPath = <<>>
        /\ built.err = "input path is required"

\* C36: in every PipelineResult Execute returns, Success is true if and only
\* if Error is absent, and a successful result holds no entry with an error.
C36_SuccessIffNoError ==
    \A t \in Threads :
        (mode[t] = "exec" /\ pc[t] = "x_done")
        => /\ res[t].Success <=> res[t].Error.msg = "nil"
           /\ res[t].Success
              => \A i \in 1..Len(res[t].Results) :
                    res[t].Results[i].Error = NoErr
\* A run has ended at the failure to read its input.
C36_Witness ==
    \E t \in Threads :
        /\ mode[t] = "exec" /\ pc[t] = "x_done"
        /\ ~res[t].Success
        /\ res[t].Error.msg = "failed to read input file"

\* C35: when Execute fails before its first step (no steps, unreadable
\* input, or the steps directory cannot be made), results is empty, the pool
\* is as it was (idle caches, created counts, mutex; no Get or Put begun)
\* and no file has been written.
C35_EarlyFailureTouchesNothing ==
    [][\A t \in Threads :
          mode[t] = "exec" /\ pc[t] = "idle" /\ pc'[t] = "x_done" =>
             /\ ~res'[t].Success
             /\ res'[t].Results = <<>>
             /\ pools' = pools /\ created' = created /\ mu' = mu
             /\ key'[t] = "nil" /\ conv'[t] = NoConv
             /\ fs' = fs
             /\ writes'[t] = <<>>]_vars
\* A run has ended at the failure to make the steps directory.
C35_Witness ==
    \E t \in Threads :
        /\ mode[t] = "exec" /\ pc[t] = "x_done"
        /\ res[t].Error.msg = "failed to create steps directory"
        /\ pipeline[t].Save
        /\ Len(pipeline[t].Steps) = 2

\* C34: Execute reads the input file once, before the first step; step 1's
\* Convert is given that file's content and step i+1's Convert the data of
\* step i's result as it is, with or without side files.
C34_StepsChained ==
    \A t \in Threads :
        (mode[t] = "exec" /\ pc[t] # "idle" /\ pipeline[t].Steps # <<>>)
        => /\ reads[t] = 1
           /\ pc[t] = "x_got" =>
                 cur[t] = IF idx[t] = 1 THEN fs[pipeline[t].InputPath]
                          ELSE res[t].Results[idx[t] - 1].Data
\* The second step of a run that writes side files is about to convert.
C34_Witness ==
    \E t \in Threads :
        /\ mode[t] = "exec" /\ pc[t] = "x_got" /\ err[t] = NoErr
        /\ idx[t] = 2 /\ pipeline[t].Save
        /\ cur[t].trail # <<>>

\* C38: in a pool made with maxSize = 0, every Get of a registered key
\* returns a temporary instance of that key and no error, every Put leaves
\* the idle caches empty, and Size() and Created() stay 0.
C38_ZeroSizedPool ==
    maxSize = 0 =>
        /\ \A k \in DOMAIN pools : pools[k] = <<>> /\ created[k] = 0
        /\ \A t \in Threads :
              (pc[t] = "got" /\ InitRegistry[key[t]] # NoCreator)
              => /\ err[t] = NoErr
                 /\ conv[t].origin = "temp"
                 /\ conv[t].key = key[t]
                 /\ conv[t].ctor \in registered[key[t]]
\* With maxSize = 0, a goroutine that put a converter back has got another.
C38_Witness ==
    /\ maxSize = 0
    /\ \E t \in Threads :
          /\ pc[t] = "got" /\ err[t] = NoErr /\ conv[t].origin = "temp"
          /\ calls = 0

\* C37: Get(key) calls the factory, on its counted path or on its fallback
\* path, only while no idle instance of key is in the key's channel.
C37_ConstructsOnlyWhenCacheEmpty ==
    \A t \in Threads :
        (/\ pc[t] = "c_lookup"
         /\ octx[t] \in {"counted", "temp"}
         /\ converterRegistry[key[t]] # NoCreator)
        => \A i \in 1..Len(pools[key[t]]) : pools[key[t]][i].key # key[t]

\* C31: the steps of the builder's pipeline are the Add* calls made so far,
\* one step per call and in call order, AddCSVToJSON, AddJSONToXML and
\* AddXMLToYAML standing for (csv, json), (json, xml) and (xml, yaml); and
\* the executor's i-th request to the pool, made after the first i-1 steps
\* were recorded, is for the key "<from>-<to>" of the i-th call.
C31_StepOfCall(c) ==
    CASE c.method = "AddCSVToJSON" -> [From |-> "csv", To |-> "json"]
      [] c.method = "AddJSONToXML" -> [From |-> "json", To |-> "xml"]
      [] c.method = "AddXMLToYAML" -> [From |-> "xml", To |-> "yaml"]
      [] c.method = "AddConversionStep" -> [From |-> c.From, To |-> c.To]
C31_Requesting(t) ==
    /\ mode[t] = "exec"
    /\ pc[t] \in GetPcs \cup {"c_rlock", "c_lookup", "x_got"}
C31_StepsAreTheAddCalls ==
    /\ bpipeline.Steps = [i \in 1..Len(added) |-> C31_StepOfCall(added[i])]
    /\ built.pipeline # "nil" =>
          Deref(built.pipeline).Steps = [i \in 1..Len(added) |-> C31_StepOfCall(added[i])]
    /\ \A t \in Threads :
          C31_Requesting(t) =>
              /\ idx[t] \in 1..Len(added)
              /\ Len(res[t].Results) = idx[t] - 1
              /\ key[t] = C31_StepOfCall(added[idx[t]]).From \o "-"
                              \o C31_StepOfCall(added[idx[t]]).To
C31_Witness ==
    \E t \in Threads :
        /\ mode[t] = "exec" /\ pc[t] = "x_got" /\ idx[t] = 2
        /\ added[1].method = "AddCSVToJSON"
        /\ added[2].method = "AddConversionStep"

\* C32: Run(query) numbers the lines of the input from 1, every line counted;
\* when the scan ends without error the writer is called exactly once, with
\* the matching lines in increasing line-number order, each under its own
\* number (the empty list when nothing matches); when the scan ends with an
\* error, that error is returned and the writer is not called.
C32_Matches == {i \in 1..Len(scanner.input) : Search(scanner.input[i], runQuery)}
C32_RunnerWritesMatchesOnce ==
    /\ rpc = "scan" => lineNumber = scanner.pos + 1
    /\ rpc = "returned" =>
          IF scanner.err # NoErr
          THEN written = <<>> /\ runErr = scanner.err
          ELSE /\ Len(written) = 1
               /\ Len(written[1]) = Cardinality(C32_Matches)
               /\ \A j \in 1..Len(written[1]) :
                     /\ written[1][j].LineNumber \in C32_Matches
                     /\ written[1][j].Line = scanner.input[written[1][j].LineNumber]
                     /\ j > 1 => written[1][j - 1].LineNumber < written[1][j].LineNumber
\* The run of TestRunner: three lines, the first and the third match.
C32_Witness ==
    /\ rpc = "returned" /\ scanner.err = NoErr
    /\ Len(scanner.input) = 3
    /\ Len(written) = 1 /\ Len(written[1]) = 2
    /\ written[1][1].LineNumber = 1 /\ written[1][2].LineNumber = 3

====
